---- MODULE Spec2Model ----
(***************************************************************************)
(* Verification model of the Mafia game simulator: the Moderator (intent   *)
(* buffers, day and night resolution, winner evaluation, round files),     *)
(* the role agents, the cooperative (coroutine) engine with its            *)
(* PhaseBarrier, the threaded engine built on std::barrier, main(), and    *)
(* the parallel annealing manager of the scheduler.                        *)
(*                                                                         *)
(* The specifications share the variables:                                 *)
(*   SpecMod    - the Moderator's public operations called with arbitrary  *)
(*                arguments, in the order the engines call them;           *)
(*   SpecDay    - one Day: ballots, kills, resolve_day_lynch;              *)
(*   SpecHuman  - that Day with the Executioner's seat given to the human; *)
(*   SpecNight  - one Night: the intents of the roles, resolve_night;      *)
(*   SpecListen - one Night with a Journalist and an Eavesdropper;         *)
(*   SpecDoctor - Doctor::on_night over consecutive Nights;                *)
(*   SpecManiac - Maniac::on_night after other players have died;          *)
(*   SpecMain   - main(): command line, YAML file, engine;                 *)
(*   SpecAnneal - ParallelAnnealerManager::run_parallel;                   *)
(*   SpecSeed   - the seeding of the engine's and the agents' generators;  *)
(*   SpecCensus - construction of the players from a configuration;        *)
(*   SpecWinner - evaluate_winner over every cast and alive set;           *)
(*   SpecCoro   - GameEngineCoro::run with the role agents;                *)
(*   SpecMT     - GameEngine::run (one thread per agent plus the engine);  *)
(*   Spec       - a match on either engine;                                *)
(*   SpecLive   - the round loop without its counters, with fairness.      *)
(* A variable that a specification does not use keeps its initial value.   *)
(***************************************************************************)
EXTENDS Integers, Sequences, FiniteSets, TLC

VARIABLES
    cfg,      \* GameConfig: tie_policy; the backend built; the RNG range explored
    role,     \* players_[i]->role(), fixed after construction
    alive,    \* players_[i]->is_alive()
    gs,       \* GameState: round_, phase_, game_over_, winner_
    mod,      \* Moderator: buffers, statistics, round log
    fs,       \* files written: round files and summary
    priv,     \* role-private state: Detective::known_mafia_, Doctor::prev_heal_
    stop,     \* engine stop_ flag
    pc,       \* per agent: position of its task / thread
    cbar,     \* coro::PhaseBarrier objects: arrived_, waiters_
    stack,    \* cooperative backend: nested on_arrive_ activations
    drv,      \* cooperative backend: the driver loop of run()
    sbar,     \* threaded backend: std::barrier objects
    mpc,      \* threaded backend: position of the moderator (engine) thread
    hist,     \* observation of the run: counters used to state the properties
    hpc       \* position of the driver in the specifications of the Moderator

vars == <<cfg, role, alive, gs, mod, fs, priv, stop, pc, cbar, stack, drv,
          sbar, mpc, hist, hpc>>

(***************************************************************************)
(* Bounds of the model.                                                    *)
(***************************************************************************)
\* Rounds explored by the engine specifications.
MaxRound == 2
\* Moderator calls made by the SpecMod driver in one run.
MaxCalls == 2
\* Players in the casts evaluate_winner is probed with (SpecWinner).
MaxCast == 4
\* Values one RNG draw ranges over (cfg.draws): a draw yields lo .. lo + draws - 1
\* at most; MaxDraw in the Moderator and cooperative specifications, MaxDrawMT
\* in the threaded one.
MaxDraw == 2
MaxDrawMT == 1

\* std::nullopt for optional<PlayerId>
NoId == -1

Barriers == {"day_start", "day_end", "night_start", "night_end"}

Ids == DOMAIN role
NP  == Cardinality(Ids)

\* The ascending sequence of the elements of a finite set of integers.
RECURSIVE SortedSeq(_)
SortedSeq(S) ==
    IF S = {} THEN <<>>
    ELSE LET m == CHOOSE x \in S : \A y \in S : x <= y
         IN  <<m>> \o SortedSeq(S \ {m})

Max2(a, b) == IF a >= b THEN a ELSE b

RECURSIVE MaxOf(_)
MaxOf(S) == IF S = {} THEN 0
            ELSE LET x == CHOOSE y \in S : TRUE IN Max2(x, MaxOf(S \ {x}))

(***************************************************************************)
(* Roles and teams                                                         *)
(***************************************************************************)
team_of(r) ==
    CASE r = "Mafia"  -> "Mafia"
      [] r = "Maniac" -> "Maniac"
      [] OTHER        -> "Town"

team(i) == team_of(role[i])

AliveIds(al) == {i \in DOMAIN al : al[i]}

(***************************************************************************)
(* Random number generator: the set of values a draw may produce           *)
(***************************************************************************)
uniform_int(lo, hi) == {v \in lo..hi : v - lo < cfg.draws}

\* a draw among all alive players instead of the elements of S
choose_among_alive(S) == AliveIds(alive)

\* Rng::choose over the ascending vector built from the set S
choose(S) == {SortedSeq(S)[k + 1] : k \in uniform_int(0, Cardinality(S) - 1)}

(***************************************************************************)
(* Moderator                                                               *)
(***************************************************************************)
\* State right after the constructor: the engine builds the Moderator before
\* the players, so every vector is sized from an empty player list.
ModInit ==
    [ day_votes                |-> <<>>,
      day_voted_flag           |-> <<>>,
      mafia_vote_counts        |-> <<>>,
      detective_shot           |-> NoId,
      doctor_heal              |-> NoId,
      maniac_target            |-> NoId,
      journalist_queries       |-> <<>>,
      eavesdrop_requests       |-> <<>>,
      stats_votes_given_day    |-> <<>>,
      stats_votes_received_day |-> <<>>,
      stats_mafia_votes        |-> <<>>,
      stats_detective_shots    |-> <<>>,
      stats_doctor_heals       |-> <<>>,
      stats_maniac_targets     |-> <<>>,
      stats_died_round         |-> <<>>,
      round_index              |-> 0,
      round_written            |-> FALSE,
      round_log                |-> <<>> ]

FsInit == [ rounds |-> <<>>, summary |-> <<>> ]

\* vector<T>::resize(n, v) keeping what is there; vectors are functions on 0..size-1
Resized(vec, n, v) == [i \in 0..(n - 1) |-> IF i \in DOMAIN vec THEN vec[i] ELSE v]
Assigned(n, v)     == [i \in 0..(n - 1) |-> v]
Size(vec)          == Cardinality(DOMAIN vec)

round_append_(m, line) == [m EXCEPT !.round_log = Append(@, line)]

\* a day opening that leaves round_index_ as it is
round_begin_day_same_index(m, al) ==
    [m EXCEPT !.round_written = FALSE,
              !.round_log     = <<  <<"ROUND", m.round_index, SortedSeq(AliveIds(al))>>  >>]

round_begin_day_(m, al) ==
    [m EXCEPT !.round_index   = @ + 1,
              !.round_written = FALSE,
              !.round_log     = <<  <<"ROUND", m.round_index + 1, SortedSeq(AliveIds(al))>>  >>]

clear_day_votes(m, al) ==
    LET n  == Size(al)
        m1 == [m EXCEPT
                 !.day_votes                = Assigned(n, NoId),
                 !.day_voted_flag           = Assigned(n, FALSE),
                 !.stats_votes_given_day    = IF Size(@) < n THEN Resized(@, n, 0) ELSE @,
                 !.stats_votes_received_day = IF Size(@) < n THEN Resized(@, n, 0) ELSE @,
                 !.stats_mafia_votes        = IF Size(@) < n THEN Resized(@, n, 0) ELSE @,
                 !.stats_detective_shots    = IF Size(@) < n THEN Resized(@, n, 0) ELSE @,
                 !.stats_doctor_heals       = IF Size(@) < n THEN Resized(@, n, 0) ELSE @,
                 !.stats_maniac_targets     = IF Size(@) < n THEN Resized(@, n, 0) ELSE @,
                 !.stats_died_round         = IF Size(@) < n THEN Resized(@, n, 0) ELSE @,
                 !.mafia_vote_counts        = IF Size(@) # n THEN Assigned(n, 0) ELSE @]
    IN  round_begin_day_(m1, al)

\* id < n && ps[id] && ps[id]->is_alive()
is_alive(al, id) == id \in DOMAIN al /\ al[id]
\* the test without the team
is_mafia_any(al, id) == is_alive(al, id)

is_mafia(al, id) == is_alive(al, id) /\ team(id) = "Mafia"
is_maniac(al, id) == is_alive(al, id) /\ team(id) = "Maniac"

\* the prefix without the is_alive() tests
InRangeOnly(al, who, target) ==
    who \in DOMAIN al /\ target \in DOMAIN al

\* The common prefix of every submission: ids in range, both players alive.
InRangeAlive(al, who, target) ==
    /\ who \in DOMAIN al /\ target \in DOMAIN al
    /\ al[who] /\ al[target]

\* a submission that counts every accepted call in the votes-given statistic
submit_day_vote_counts_each(m, al, voter, target) ==
    IF ~InRangeAlive(al, voter, target) THEN m
    ELSE LET n  == Size(al)
             m0 == IF Size(m.day_votes) # n
                   THEN [m EXCEPT !.day_votes = Resized(@, n, NoId)] ELSE m
             m1 == [m0 EXCEPT !.day_voted_flag =
                                  IF voter \in DOMAIN @ THEN [@ EXCEPT ![voter] = TRUE] ELSE @,
                              !.stats_votes_given_day =
                                  IF voter \in DOMAIN @ THEN [@ EXCEPT ![voter] = @ + 1] ELSE @]
         IN  round_append_([m1 EXCEPT !.day_votes[voter] = target],
                           <<"DAY: vote", voter, target>>)

submit_day_vote(m, al, voter, target) ==
    IF ~InRangeAlive(al, voter, target) THEN m
    ELSE LET n  == Size(al)
             m0 == IF Size(m.day_votes) # n
                   THEN [m EXCEPT !.day_votes = Resized(@, n, NoId)] ELSE m
             first == voter \in DOMAIN m0.day_voted_flag /\ ~m0.day_voted_flag[voter]
             m1 == IF first
                   THEN [m0 EXCEPT !.day_voted_flag[voter] = TRUE,
                                   !.stats_votes_given_day =
                                       IF voter \in DOMAIN @ THEN [@ EXCEPT ![voter] = @ + 1] ELSE @]
                   ELSE m0
         IN  round_append_([m1 EXCEPT !.day_votes[voter] = target],
                           <<"DAY: vote", voter, target>>)

mafia_vote_target(m, al, mafia_id, target) ==
    IF ~InRangeAlive(al, mafia_id, target) THEN m
    ELSE IF ~is_mafia(al, mafia_id) THEN m
    ELSE LET n  == Size(al)
             m0 == IF Size(m.mafia_vote_counts) # n
                   THEN [m EXCEPT !.mafia_vote_counts = Assigned(n, 0)] ELSE m
         IN  round_append_(
               [m0 EXCEPT !.mafia_vote_counts[target] = @ + 1,
                          !.stats_mafia_votes =
                              IF mafia_id \in DOMAIN @ THEN [@ EXCEPT ![mafia_id] = @ + 1] ELSE @],
               <<"NIGHT: mafia-vote", mafia_id, target>>)

\* an investigation that answers yes for every alive player
investigate_alive(al, detective_id, target) == is_alive(al, target)

investigate(al, detective_id, target) == is_mafia(al, target)

set_detective_shot(m, al, detective_id, target) ==
    IF ~InRangeAlive(al, detective_id, target) THEN m
    ELSE round_append_(
           [m EXCEPT !.detective_shot = target,
                     !.stats_detective_shots =
                         IF detective_id \in DOMAIN @ THEN [@ EXCEPT ![detective_id] = @ + 1] ELSE @],
           <<"NIGHT: detective-shot", target>>)

set_doctor_heal(m, al, doctor_id, target) ==
    IF ~InRangeAlive(al, doctor_id, target) THEN m
    ELSE round_append_(
           [m EXCEPT !.doctor_heal = target,
                     !.stats_doctor_heals =
                         IF doctor_id \in DOMAIN @ THEN [@ EXCEPT ![doctor_id] = @ + 1] ELSE @],
           <<"NIGHT: doctor-heal", target>>)

set_maniac_target(m, al, maniac_id, target) ==
    IF ~InRangeAlive(al, maniac_id, target) THEN m
    ELSE IF ~is_maniac(al, maniac_id) THEN m
    ELSE round_append_(
           [m EXCEPT !.maniac_target = target,
                     !.stats_maniac_targets =
                         IF maniac_id \in DOMAIN @ THEN [@ EXCEPT ![maniac_id] = @ + 1] ELSE @],
           <<"NIGHT: maniac-target", target>>)

set_journalist_compare(m, al, journalist_id, a, b) ==
    IF ~(journalist_id \in DOMAIN al /\ a \in DOMAIN al /\ b \in DOMAIN al) THEN m
    ELSE IF a = b THEN m
    ELSE IF journalist_id = a \/ journalist_id = b THEN m
    ELSE IF ~(al[journalist_id] /\ al[a] /\ al[b]) THEN m
    ELSE round_append_(
           [m EXCEPT !.journalist_queries = Append(@, [jid |-> journalist_id, a |-> a, b |-> b])],
           <<"NIGHT: journalist-compare", journalist_id, a, b>>)

set_eavesdropper_target(m, al, eavesdropper_id, target) ==
    IF ~(eavesdropper_id \in DOMAIN al /\ target \in DOMAIN al) THEN m
    ELSE IF eavesdropper_id = target THEN m
    ELSE IF ~(al[eavesdropper_id] /\ al[target]) THEN m
    ELSE round_append_(
           [m EXCEPT !.eavesdrop_requests = Append(@, <<eavesdropper_id, target>>)],
           <<"NIGHT: eavesdropper-target", eavesdropper_id, target>>)

\* ---- common operations ----
\* kill_player writing the negation of the flag instead of false
kill_player_flips(al, id) ==
    IF id \notin DOMAIN al THEN al
    ELSE [al EXCEPT ![id] = ~@]

kill_player(al, id) ==
    IF id \notin DOMAIN al THEN al
    ELSE IF ~al[id] THEN al
    ELSE [al EXCEPT ![id] = FALSE]

alive_mafia_count_(al)  == Cardinality({i \in DOMAIN al : al[i] /\ team(i) = "Mafia"})
alive_maniac_count_(al) == Cardinality({i \in DOMAIN al : al[i] /\ team(i) = "Maniac"})
alive_town_count_(al)   == Cardinality({i \in DOMAIN al : al[i] /\ team(i) = "Town"})
alive_count_(al)        == Cardinality({i \in DOMAIN al : al[i]})

\* the mafia rule with a strict comparison
WinnerOfCounts_strict(maf, man, town) ==
    IF maf = 0 /\ man = 0 THEN "Town"
    ELSE IF man = 1 /\ town = 1 /\ maf = 0 THEN "Maniac"
    ELSE IF maf > 0 /\ maf > (town + man) THEN "Mafia"
    ELSE "None"

\* The decision over the three counts, in the order of the code.
WinnerOfCounts(maf, man, town) ==
    IF maf = 0 /\ man = 0 THEN "Town"
    ELSE IF man = 1 /\ town = 1 /\ maf = 0 THEN "Maniac"
    ELSE IF maf > 0 /\ maf >= (town + man) THEN "Mafia"
    ELSE "None"

evaluate_winner(al) ==
    WinnerOfCounts(alive_mafia_count_(al), alive_maniac_count_(al), alive_town_count_(al))

\* stats_died_round_[victim] is set once, to the moderator's round index
MarkDiedRound(m, victim) ==
    IF victim \in DOMAIN m.stats_died_round /\ m.stats_died_round[victim] = 0
    THEN [m EXCEPT !.stats_died_round[victim] = m.round_index]
    ELSE m

\* ---- round files ----
round_write_file_(m, f, night_completed) ==
    IF m.round_written THEN [mod |-> m, fs |-> f]
    ELSE [mod |-> [m EXCEPT !.round_written = TRUE],
          fs  |-> [f EXCEPT !.rounds = Append(@, [r |-> m.round_index, night |-> night_completed])]]

\* a finalisation that writes the file whatever round_written_ says
finalize_round_file_again(m, f) ==
    [mod |-> [m EXCEPT !.round_written = TRUE],
     fs  |-> [f EXCEPT !.rounds = Append(@, [r |-> m.round_index, night |-> FALSE])]]

finalize_round_file_if_pending(m, f) ==
    IF m.round_index > 0 /\ ~m.round_written
    THEN round_write_file_(m, f, FALSE)
    ELSE [mod |-> m, fs |-> f]

write_summary_file(f, al) == [f EXCEPT !.summary = Append(@, evaluate_winner(al))]

\* ---- day resolution ----
\* Executioner::decide_execution: abstain, or any of the leaders
decide_execution(al, i, leaders) ==
    IF ~al[i] \/ leaders = {} THEN {NoId} ELSE {NoId} \cup leaders

\* Human::decide_execution: the answer typed at the prompt, 0 for abstaining
\* or one of the leaders
Human_decide_execution(al, i, leaders) ==
    IF ~al[i] \/ leaders = {} THEN {NoId} ELSE {NoId} \cup leaders

\* every player of role Executioner, dead ones too
executioners_any_(al) ==
    SortedSeq({i \in DOMAIN al : role[i] = "Executioner" /\ i # cfg.human})

\* the players the loop of resolve_tie_via_executioner_ does not skip: the dead,
\* the other roles, and the player whose object is not a roles::Executioner
\* (dynamic_cast gives null for the roles::Human object of the interactive
\* player, cfg.human, whatever its role)
executioners_alive_(al) ==
    SortedSeq({i \in DOMAIN al : al[i] /\ role[i] = "Executioner" /\ i # cfg.human})

\* resolve_tie_via_executioner_ over the remaining executioners exs (ascending ids):
\* the set of possible results [victim, mod].
RECURSIVE resolve_tie_via_executioner_(_, _, _, _)
resolve_tie_via_executioner_(exs, leaders, al, m) ==
    IF exs = <<>> THEN { [victim |-> NoId, mod |-> m] }
    ELSE LET i == Head(exs)
         IN  UNION { IF d = NoId
                     THEN resolve_tie_via_executioner_(Tail(exs), leaders, al,
                              round_append_(m, <<"DAY: executioner abstains", i>>))
                     ELSE IF d \notin leaders
                     THEN resolve_tie_via_executioner_(Tail(exs), leaders, al,
                              round_append_(m, <<"DAY: executioner invalid choice", i>>))
                     ELSE { [victim |-> d,
                             mod |-> round_append_(m, <<"DAY: executioner chooses", d>>)] }
                   : d \in decide_execution(al, i, leaders) }

\* the count without the test of the voter's alive flag
DayTally_dead_voters(m, al) ==
    [t \in DOMAIN al |->
        Cardinality({v \in DOMAIN al :
                        /\ v \in DOMAIN m.day_votes
                        /\ m.day_votes[v] # NoId
                        /\ m.day_votes[v] = t
                        /\ al[t]})]

DayTally(m, al) ==
    [t \in DOMAIN al |->
        Cardinality({v \in DOMAIN al :
                        /\ al[v]
                        /\ v \in DOMAIN m.day_votes
                        /\ m.day_votes[v] # NoId
                        /\ m.day_votes[v] = t
                        /\ al[t]})]

\* a lynch that is journalled but leaves the victim alive
Lynch_spared(m, al, victim, tag) ==
    [ mod    |-> round_append_(m, <<tag, victim, role[victim]>>),
      alive  |-> al,
      victim |-> victim ]

\* The lynch itself: log line, death round, kill.
Lynch(m, al, victim, tag) ==
    [ mod    |-> MarkDiedRound(round_append_(m, <<tag, victim, role[victim]>>), victim),
      alive  |-> kill_player(al, victim),
      victim |-> victim ]

\* resolve_day_lynch once the votes are counted: tally is the local array of
\* votes per target
resolve_day_lynch_tallied(m0, al, tie_policy, tally) ==
    LET m1     == [m0 EXCEPT !.stats_votes_received_day =
                       [i \in DOMAIN @ |-> IF i \in DOMAIN al /\ tally[i] > 0
                                           THEN @[i] + tally[i] ELSE @[i]]]
        max_votes == MaxOf({tally[i] : i \in DOMAIN al})
        leaders   == {i \in DOMAIN al : tally[i] = max_votes}
        exs       == executioners_alive_(al)
    IN  IF max_votes <= 0
        THEN { [mod |-> round_append_(m1, <<"DAY: no lynch">>), alive |-> al, victim |-> NoId] }
        ELSE IF Cardinality(leaders) > 1 /\ tie_policy = "None"
        THEN { IF r.victim = NoId
               THEN [mod |-> round_append_(r.mod, <<"DAY: tie -> no lynch">>),
                     alive |-> al, victim |-> NoId]
               ELSE Lynch(r.mod, al, r.victim, "DAY: executioner-lynch")
             : r \in resolve_tie_via_executioner_(exs, leaders, al, m1) }
        ELSE IF Cardinality(leaders) > 1 /\ tie_policy = "Random"
        THEN { Lynch(round_append_(m1, <<"DAY: tie -> victim chosen randomly">>),
                     al, v, "DAY: lynch victim")
             : v \in choose(leaders) }
        ELSE { Lynch(m1, al, Head(SortedSeq(leaders)), "DAY: lynch victim") }

\* resolve_day_lynch that settles every tie by a draw
resolve_day_lynch_draws(m, al, tie_policy) ==
    resolve_day_lynch_tallied(m, al, "Random", DayTally(m, al))

\* resolve_day_lynch: the set of possible results [mod, alive, victim]; the
\* choices are the moderator RNG (tie, policy Random) and the executioners.
resolve_day_lynch(m, al, tie_policy) ==
    LET n  == Size(al)
        m0 == IF Size(m.day_votes) # n
              THEN [m EXCEPT !.day_votes = Resized(@, n, NoId)] ELSE m
    IN  UNION { resolve_day_lynch_tallied(m0, al, tie_policy, tally)
                : tally \in {DayTally(m0, al)} }

\* ---- night resolution ----
\* a clearing that forgets the doctor's heal
clear_night_intents_keeps_heal(m, al) ==
    [m EXCEPT !.mafia_vote_counts  = Assigned(Size(al), 0),
              !.detective_shot     = NoId,
              !.maniac_target      = NoId,
              !.journalist_queries = <<>>,
              !.eavesdrop_requests = <<>>]

clear_night_intents_(m, al) ==
    [m EXCEPT !.mafia_vote_counts  = Assigned(Size(al), 0),
              !.detective_shot     = NoId,
              !.doctor_heal        = NoId,
              !.maniac_target      = NoId,
              !.journalist_queries = <<>>,
              !.eavesdrop_requests = <<>>]

\* candidates taken among all players at the maximum, dead ones included
MafiaCands_dead_too(counts, al) ==
    LET maxv == MaxOf({counts[i] : i \in DOMAIN counts})
    IN  IF maxv > 0
        THEN {i \in DOMAIN al : i \in DOMAIN counts /\ counts[i] = maxv}
        ELSE {}

\* candidates of the mafia kill: maximal tally among alive players
MafiaCands(counts, al) ==
    LET maxv == MaxOf({counts[i] : i \in DOMAIN counts})
    IN  IF maxv > 0
        THEN {i \in DOMAIN al : i \in DOMAIN counts /\ counts[i] = maxv /\ al[i]}
        ELSE {}

\* mark_shot without the test of the alive flag
Marked_dead_too(al, tid) == IF tid # NoId /\ tid \in DOMAIN al THEN {tid} ELSE {}

\* mark_shot: the victim is marked when it is alive
Marked(al, tid) == IF tid # NoId /\ is_alive(al, tid) THEN {tid} ELSE {}

RECURSIVE AppendAll(_, _)
AppendAll(m, lines) ==
    IF lines = <<>> THEN m ELSE AppendAll(round_append_(m, Head(lines)), Tail(lines))

MarkLines(al, mt, ds, mn) ==
       (IF Marked(al, mt) # {} THEN << <<"NIGHT: marked-by-mafia", mt>> >> ELSE <<>>)
    \o (IF Marked(al, ds) # {} THEN << <<"NIGHT: marked-by-detective", ds>> >> ELSE <<>>)
    \o (IF Marked(al, mn) # {} THEN << <<"NIGHT: marked-by-maniac", mn>> >> ELSE <<>>)

\* the kill set with the heal ignored
ToKill_unhealed(al, mt, ds, mn, heal) ==
    Marked(al, mt) \cup Marked(al, ds) \cup Marked(al, mn)

\* The kill set after the doctor's heal.
ToKill(al, mt, ds, mn, heal) ==
    (Marked(al, mt) \cup Marked(al, ds) \cup Marked(al, mn)) \ Marked(al, heal)

\* a comparison of the roles instead of the teams
JournalistLine_roles(q) ==
    <<"NIGHT: journalist-result", q.jid, q.a, q.b,
      IF role[q.a] = role[q.b] THEN "SAME" ELSE "DIFFERENT">>

JournalistLine(q) ==
    <<"NIGHT: journalist-result", q.jid, q.a, q.b,
      IF team(q.a) = team(q.b) THEN "SAME" ELSE "DIFFERENT">>

\* an answer that stops at the first action found
EavesItems_first(counts, ds, heal, mn, tgt) ==
    IF tgt \in DOMAIN counts /\ counts[tgt] > 0 THEN << <<"mafia", counts[tgt]>> >>
    ELSE IF ds # NoId /\ ds = tgt THEN << <<"det-shot">> >>
    ELSE IF heal # NoId /\ heal = tgt THEN << <<"doc-heal">> >>
    ELSE IF mn # NoId /\ mn = tgt THEN << <<"maniac">> >>
    ELSE << <<"none">> >>

\* what the eavesdropper hears about tgt
EavesItems(counts, ds, heal, mn, tgt) ==
    LET items ==
              (IF tgt \in DOMAIN counts /\ counts[tgt] > 0
               THEN << <<"mafia", counts[tgt]>> >> ELSE <<>>)
           \o (IF ds # NoId /\ ds = tgt THEN << <<"det-shot">> >> ELSE <<>>)
           \o (IF heal # NoId /\ heal = tgt THEN << <<"doc-heal">> >> ELSE <<>>)
           \o (IF mn # NoId /\ mn = tgt THEN << <<"maniac">> >> ELSE <<>>)
    IN  IF items = <<>> THEN << <<"none">> >> ELSE items

RECURSIVE ApplyDeaths(_, _, _)
ApplyDeaths(m, al, deaths) ==
    IF deaths = <<>> THEN [mod |-> m, alive |-> al]
    ELSE LET id == Head(deaths)
         IN  ApplyDeaths(round_append_(MarkDiedRound(m, id), <<"NIGHT: death", id, role[id]>>),
                         kill_player(al, id), Tail(deaths))

\* resolve_night with the moderator RNG's pick mt among the candidates
\* (NoId when there is none): [mod, alive, fs, deaths].
ResolveNightWith(m, al, f, mt) ==
    LET n      == Size(al)
        m0     == IF Size(m.mafia_vote_counts) # n
                  THEN [m EXCEPT !.mafia_vote_counts = Assigned(n, 0)] ELSE m
        counts == m0.mafia_vote_counts
        ds     == m0.detective_shot
        heal   == m0.doctor_heal
        mn     == m0.maniac_target
        tallyLine == <<"NIGHT: mafia-tally",
                       [i \in {j \in DOMAIN al : counts[j] > 0 /\ al[j]} |-> counts[i]]>>
        healLine  == IF Marked(al, heal) # {}
                     THEN << <<"NIGHT: heal-cancels", heal>> >> ELSE <<>>
        jl == [k \in 1..Len(m0.journalist_queries) |-> JournalistLine(m0.journalist_queries[k])]
        el == [k \in 1..Len(m0.eavesdrop_requests) |->
                  <<"NIGHT: eavesdropper-result", m0.eavesdrop_requests[k][2],
                    m0.eavesdrop_requests[k][1],
                    EavesItems(counts, ds, heal, mn, m0.eavesdrop_requests[k][2])>>]
        m1     == AppendAll(m0, <<tallyLine>> \o MarkLines(al, mt, ds, mn) \o healLine \o jl \o el)
        deaths == SortedSeq(ToKill(al, mt, ds, mn, heal))
        d      == ApplyDeaths(m1, al, deaths)
        w      == round_write_file_(clear_night_intents_(d.mod, al), f, TRUE)
    IN  [mod |-> w.mod, alive |-> d.alive, fs |-> w.fs, deaths |-> deaths]

resolve_night(m, al, f) ==
    LET cands == MafiaCands(IF Size(m.mafia_vote_counts) # Size(al)
                            THEN Assigned(Size(al), 0) ELSE m.mafia_vote_counts, al)
    IN  { ResolveNightWith(m, al, f, mt) : mt \in (IF cands = {} THEN {NoId} ELSE choose(cands)) }

(***************************************************************************)
(* Role agents                                                             *)
(***************************************************************************)
PrivInit == [known_mafia |-> {}, prev_heal |-> NoId]

random_alive_except_self(al, id) ==
    LET ids == AliveIds(al) \ {id}
    IN  IF ids = {} THEN {id} ELSE choose(ids)

random_alive_town_except_self(al, id) ==
    LET ids == {i \in AliveIds(al) \ {id} : team(i) = "Town"}
    IN  IF ids = {} THEN random_alive_except_self(al, id) ELSE choose(ids)

prune_dead_known_mafia_(al, km) == km \cap AliveIds(al)

\* vote_day of the agent id: the set of possible [target, priv]
vote_day(al, pv, id) ==
    CASE role[id] = "Detective" ->
           LET km == prune_dead_known_mafia_(al, pv.known_mafia)
           IN  { [target |-> t, priv |-> [pv EXCEPT !.known_mafia = km]]
                 : t \in (IF km # {} THEN choose(km) ELSE random_alive_except_self(al, id)) }
      [] role[id] = "Mafia" ->
           { [target |-> t, priv |-> pv] : t \in random_alive_town_except_self(al, id) }
      [] OTHER ->
           { [target |-> t, priv |-> pv] : t \in random_alive_except_self(al, id) }

\* the engine's sanitising of a day vote (engine RNG)
ensure_valid_day_target(al, voter, wanted) ==
    IF wanted \in DOMAIN al /\ al[wanted] /\ wanted # voter THEN {wanted}
    ELSE LET alive_ids == AliveIds(al) \ {voter}
         IN  IF alive_ids = {} THEN {voter} ELSE choose(alive_ids)

\* the day body of one agent: on_day, vote_day, ensure_valid_day_target,
\* submit_day_vote; the set of possible [mod, priv]
DayHook(m, al, pv, id) ==
    UNION { { [mod |-> submit_day_vote(m, al, id, t), priv |-> v.priv]
              : t \in ensure_valid_day_target(al, id, v.target) }
            : v \in vote_day(al, pv, id) }

Mafia_on_night(m, al, pv, id) ==
    { IF t = id THEN [mod |-> m, priv |-> pv]
      ELSE [mod |-> mafia_vote_target(m, al, id, t), priv |-> pv]
      : t \in random_alive_town_except_self(al, id) }

Detective_on_night(m, al, pv, id) ==
    LET km    == prune_dead_known_mafia_(al, pv.known_mafia)
        coins == IF km # {} THEN uniform_int(0, 1) ELSE {0}
        shots == { [mod  |-> set_detective_shot(m, al, id, t),
                    priv |-> [pv EXCEPT !.known_mafia = km]] : t \in choose(km) }
        alt   == (AliveIds(al) \ {id}) \ km
        tgts  == UNION { IF km # {} /\ t \in km /\ alt # {} THEN choose(alt) ELSE {t}
                         : t \in random_alive_except_self(al, id) }
        looks == { [mod  |-> m,
                    priv |-> [pv EXCEPT !.known_mafia =
                                 IF investigate(al, id, t) THEN km \cup {t} ELSE km]]
                   : t \in tgts }
    IN  (IF 1 \in coins THEN shots ELSE {}) \cup (IF 0 \in coins THEN looks ELSE {})

Doctor_on_night(m, al, pv, id) ==
    LET all   == AliveIds(al)
        cands == IF pv.prev_heal # NoId /\ Cardinality(all) > 1
                 THEN (IF all \ {pv.prev_heal} = {} THEN {pv.prev_heal}
                       ELSE all \ {pv.prev_heal})
                 ELSE all
        tgts  == IF cands = {} THEN {id} ELSE choose(cands)
    IN  { [mod |-> set_doctor_heal(m, al, id, t), priv |-> [pv EXCEPT !.prev_heal = t]]
          : t \in tgts }

\* Doctor::on_night of the tree "Mafia (Task 1)": the previous target is always
\* removed, and with nobody left the heal is skipped and prev_heal_ reset
Doctor_on_night_task1(m, al, pv, id) ==
    LET all   == AliveIds(al)
        cands == IF pv.prev_heal # NoId THEN all \ {pv.prev_heal} ELSE all
    IN  IF cands = {}
        THEN { [mod |-> m, priv |-> [pv EXCEPT !.prev_heal = NoId]] }
        ELSE { [mod |-> set_doctor_heal(m, al, id, t), priv |-> [pv EXCEPT !.prev_heal = t]]
               : t \in choose(cands) }

Maniac_on_night(m, al, pv, id) ==
    { [mod |-> set_maniac_target(m, al, id, t), priv |-> pv]
      : t \in random_alive_except_self(al, id) }

\* Maniac::on_night of include/smart/shared_like.hpp: with nobody else alive
\* the action is skipped
Maniac_on_night_skips(m, al, pv, id) ==
    { IF t = id THEN [mod |-> m, priv |-> pv]
      ELSE [mod |-> set_maniac_target(m, al, id, t), priv |-> pv]
      : t \in random_alive_except_self(al, id) }

Journalist_on_night(m, al, pv, id) ==
    LET others == AliveIds(al) \ {id}
    IN  IF Cardinality(others) < 2 THEN { [mod |-> m, priv |-> pv] }
        ELSE UNION { { [mod |-> set_journalist_compare(m, al, id, a, b), priv |-> pv]
                       : b \in choose(others \ {a}) }
                     : a \in choose(others) }

Eavesdropper_on_night(m, al, pv, id) ==
    LET others == AliveIds(al) \ {id}
    IN  IF others = {} THEN { [mod |-> m, priv |-> pv] }
        ELSE { [mod |-> set_eavesdropper_target(m, al, id, t), priv |-> pv]
               : t \in choose(others) }

\* on_night of the agent id: the set of possible [mod, priv]
on_night(m, al, pv, id) ==
    CASE role[id] = "Mafia"        -> Mafia_on_night(m, al, pv, id)
      [] role[id] = "Detective"    -> Detective_on_night(m, al, pv, id)
      [] role[id] = "Doctor"       -> Doctor_on_night(m, al, pv, id)
      [] role[id] = "Maniac"       -> Maniac_on_night(m, al, pv, id)
      [] role[id] = "Journalist"   -> Journalist_on_night(m, al, pv, id)
      [] role[id] = "Eavesdropper" -> Eavesdropper_on_night(m, al, pv, id)
      [] OTHER                     -> { [mod |-> m, priv |-> pv] }

(***************************************************************************)
(* SpecMod: the Moderator's operations called with arbitrary arguments     *)
(***************************************************************************)
\* the cast built by init_players_ for n_players = 4 and no extra roles
Cast4 == [i \in 0..3 |-> <<"Mafia", "Detective", "Doctor", "Maniac">>[i + 1]]

\* casts the shuffle of init_players_ can produce
CastOf(seq) == [i \in 0..(Len(seq) - 1) |-> seq[i + 1]]
Casts == { Cast4, CastOf(<<"Detective", "Mafia", "Doctor", "Maniac">>) }

TiePolicies == {"None", "Random"}

GsInit == [round |-> 1, phase |-> "Day", game_over |-> FALSE, winner |-> "None"]

\* a round counter that is left as it is
next_round_stays(g) == g

\* GameState::next_round
next_round(g) == [g EXCEPT !.round = @ + 1]

\* ids a caller may pass: every player id and one id past the end
ArgIds == 0..NP

InitMod ==
    /\ cfg   \in [tie_policy : TiePolicies, backend : {"none"}, draws : {MaxDraw},
                  human : {NoId}]
    /\ role  = Cast4
    /\ alive = [i \in DOMAIN Cast4 |-> TRUE]
    /\ gs    = GsInit
    /\ mod   = ModInit
    /\ fs    = FsInit
    /\ priv  = [i \in DOMAIN Cast4 |-> PrivInit]
    /\ stop  = FALSE
    /\ pc    = [i \in DOMAIN Cast4 |-> "none"]
    /\ cbar  = <<>>
    /\ stack = <<>>
    /\ drv   = <<>>
    /\ sbar  = <<>>
    /\ mpc   = "none"
    /\ hist  = [calls |-> 0, last |-> "none"]
    /\ hpc   = "start"

EngineUnchanged == UNCHANGED <<cfg, role, gs, priv, stop, pc, cbar, stack, drv, sbar, mpc>>

\* How the driver classifies the call it makes: an id out of range or dead
\* ("bad"), else a mafia vote by a player outside team Mafia or a maniac
\* target by a player that is not the Maniac ("wrong_role"), else the
\* submitter among its own targets or a pair named twice ("self",
\* "heal_self" for the doctor's heal), else "mafia_ok" / "maniac_ok" for the
\* two role-checked operations and "ok" for the others.
CallKind(op, al, who, targets) ==
    IF \E x \in {who} \cup targets : ~is_alive(al, x) THEN "bad"
    ELSE IF \/ (op = "mafia_vote_target" /\ team(who) # "Mafia")
            \/ (op = "set_maniac_target" /\ team(who) # "Maniac")
    THEN "wrong_role"
    ELSE IF who \in targets \/ (op = "set_journalist_compare" /\ Cardinality(targets) < 2)
    THEN (IF op = "set_doctor_heal" THEN "heal_self" ELSE "self")
    ELSE IF op = "mafia_vote_target" THEN "mafia_ok"
    ELSE IF op = "set_maniac_target" THEN "maniac_ok"
    ELSE "ok"

Called(kind) == hist' = [calls |-> hist.calls + 1, last |-> kind]

MClearDayVotes ==
    /\ hpc = "start"
    /\ mod.round_index < MaxRound
    /\ mod' = clear_day_votes(mod, alive)
    /\ hpc' = "day"
    /\ hist' = [hist EXCEPT !.last = "none"]
    /\ UNCHANGED <<alive, fs>>
    /\ EngineUnchanged

MSubmitDayVote ==
    /\ hpc = "day"
    /\ hist.calls < MaxCalls
    /\ \E v \in ArgIds, t \in ArgIds :
          /\ mod' = submit_day_vote(mod, alive, v, t)
          /\ Called(CallKind("submit_day_vote", alive, v, {t}))
    /\ UNCHANGED <<alive, fs, hpc>>
    /\ EngineUnchanged

MKillPlayer ==
    /\ hpc \in {"day", "night"}
    /\ hist.calls < MaxCalls
    /\ \E id \in ArgIds :
          /\ alive' = kill_player(alive, id)
          /\ Called("kill")
    /\ UNCHANGED <<mod, fs, hpc>>
    /\ EngineUnchanged

MResolveDayLynch ==
    /\ hpc = "day"
    /\ \E r \in resolve_day_lynch(mod, alive, cfg.tie_policy) :
          /\ mod' = r.mod
          /\ alive' = r.alive
    /\ hpc' = "night"
    /\ hist' = [hist EXCEPT !.last = "none"]
    /\ UNCHANGED fs
    /\ EngineUnchanged

MMafiaVoteTarget ==
    /\ hpc = "night"
    /\ hist.calls < MaxCalls
    /\ \E v \in ArgIds, t \in ArgIds :
          /\ mod' = mafia_vote_target(mod, alive, v, t)
          /\ Called(CallKind("mafia_vote_target", alive, v, {t}))
    /\ UNCHANGED <<alive, fs, hpc>>
    /\ EngineUnchanged

MSetDetectiveShot ==
    /\ hpc = "night"
    /\ hist.calls < MaxCalls
    /\ \E v \in ArgIds, t \in ArgIds :
          /\ mod' = set_detective_shot(mod, alive, v, t)
          /\ Called(CallKind("set_detective_shot", alive, v, {t}))
    /\ UNCHANGED <<alive, fs, hpc>>
    /\ EngineUnchanged

MSetDoctorHeal ==
    /\ hpc = "night"
    /\ hist.calls < MaxCalls
    /\ \E v \in ArgIds, t \in ArgIds :
          /\ mod' = set_doctor_heal(mod, alive, v, t)
          /\ Called(CallKind("set_doctor_heal", alive, v, {t}))
    /\ UNCHANGED <<alive, fs, hpc>>
    /\ EngineUnchanged

MSetManiacTarget ==
    /\ hpc = "night"
    /\ hist.calls < MaxCalls
    /\ \E v \in ArgIds, t \in ArgIds :
          /\ mod' = set_maniac_target(mod, alive, v, t)
          /\ Called(CallKind("set_maniac_target", alive, v, {t}))
    /\ UNCHANGED <<alive, fs, hpc>>
    /\ EngineUnchanged

MSetJournalistCompare ==
    /\ hpc = "night"
    /\ hist.calls < MaxCalls
    /\ \E v \in ArgIds, a \in ArgIds, b \in ArgIds :
          /\ mod' = set_journalist_compare(mod, alive, v, a, b)
          /\ Called(CallKind("set_journalist_compare", alive, v, {a, b}))
    /\ UNCHANGED <<alive, fs, hpc>>
    /\ EngineUnchanged

MSetEavesdropperTarget ==
    /\ hpc = "night"
    /\ hist.calls < MaxCalls
    /\ \E v \in ArgIds, t \in ArgIds :
          /\ mod' = set_eavesdropper_target(mod, alive, v, t)
          /\ Called(CallKind("set_eavesdropper_target", alive, v, {t}))
    /\ UNCHANGED <<alive, fs, hpc>>
    /\ EngineUnchanged

MResolveNight ==
    /\ hpc = "night"
    /\ \E r \in resolve_night(mod, alive, fs) :
          /\ mod' = r.mod
          /\ alive' = r.alive
          /\ fs' = r.fs
    /\ hpc' = "start"
    /\ hist' = [hist EXCEPT !.last = "none"]
    /\ EngineUnchanged

NextMod ==
    \/ MClearDayVotes
    \/ MSubmitDayVote
    \/ MKillPlayer
    \/ MResolveDayLynch
    \/ MMafiaVoteTarget
    \/ MSetDetectiveShot
    \/ MSetDoctorHeal
    \/ MSetManiacTarget
    \/ MSetJournalistCompare
    \/ MSetEavesdropperTarget
    \/ MResolveNight

SpecMod == InitMod /\ [][NextMod]_vars

(***************************************************************************)
(* SpecDay: one Day of the Moderator, with and without an Executioner.      *)
(* Player 0 may cast an early ballot, then every player in turn votes or   *)
(* abstains, players may be killed before the count, and resolve_day_lynch *)
(* runs.                                                                   *)
(***************************************************************************)
Cast5 == CastOf(<<"Mafia", "Detective", "Doctor", "Maniac", "Executioner">>)

\* players killed between the ballots and the count
MaxDead == 1

InitDay ==
    /\ cfg   \in [tie_policy : TiePolicies, backend : {"none"}, draws : {MaxDraw},
                  human : {NoId}]
    /\ role  \in {Cast4, Cast5}
    /\ alive = [i \in DOMAIN role |-> TRUE]
    /\ gs    = GsInit
    /\ mod   = ModInit
    /\ fs    = FsInit
    /\ priv  = [i \in DOMAIN role |-> PrivInit]
    /\ stop  = FALSE
    /\ pc    = [i \in DOMAIN role |-> "none"]
    /\ cbar  = <<>>
    /\ stack = <<>>
    /\ drv   = <<>>
    /\ sbar  = <<>>
    /\ mpc   = "none"
    /\ hist  = [next |-> 0, before |-> [i \in DOMAIN role |-> TRUE], victim |-> NoId]
    /\ hpc   = "start"

DClearDayVotes ==
    /\ hpc = "start"
    /\ mod' = clear_day_votes(mod, alive)
    /\ hpc' = "open"
    /\ UNCHANGED <<alive, fs, hist>>
    /\ EngineUnchanged

\* a ballot of player 0 that its ballot in the turn below replaces
DEarlyVote ==
    /\ hpc = "open"
    /\ \E t \in Ids : mod' = submit_day_vote(mod, alive, 0, t)
    /\ hpc' = "ballot"
    /\ UNCHANGED <<alive, fs, hist>>
    /\ EngineUnchanged

\* the next player votes for some player, or does not vote
DSubmitDayVote ==
    /\ hpc \in {"open", "ballot"}
    /\ hist.next < NP
    /\ \E t \in Ids \cup {NoId} :
          mod' = IF t = NoId THEN mod ELSE submit_day_vote(mod, alive, hist.next, t)
    /\ hist' = [hist EXCEPT !.next = @ + 1]
    /\ hpc' = "ballot"
    /\ UNCHANGED <<alive, fs>>
    /\ EngineUnchanged

DKillPlayer ==
    /\ hpc = "ballot"
    /\ hist.next = NP
    /\ NP - alive_count_(alive) < MaxDead
    /\ \E id \in AliveIds(alive) : alive' = kill_player(alive, id)
    /\ UNCHANGED <<mod, fs, hist, hpc>>
    /\ EngineUnchanged

DResolveDayLynch ==
    /\ hpc = "ballot"
    /\ hist.next = NP
    /\ \E r \in resolve_day_lynch(mod, alive, cfg.tie_policy) :
          /\ mod' = r.mod
          /\ alive' = r.alive
          /\ hist' = [hist EXCEPT !.before = alive, !.victim = r.victim]
    /\ hpc' = "resolved"
    /\ UNCHANGED fs
    /\ EngineUnchanged

NextDay ==
    \/ DClearDayVotes
    \/ DEarlyVote
    \/ DSubmitDayVote
    \/ DKillPlayer
    \/ DResolveDayLynch

SpecDay == InitDay /\ [][NextDay]_vars

(***************************************************************************)
(* SpecHuman: the Day of SpecDay under tie policy None on the cast with an *)
(* Executioner, which is an AI agent (cfg.human = NoId) or the interactive *)
(* player (cfg.human = its id: init_players_ builds a roles::Human with    *)
(* the role drawn for that seat).                                          *)
(***************************************************************************)
ExecutionerId == CHOOSE i \in DOMAIN Cast5 : Cast5[i] = "Executioner"

InitHuman ==
    /\ cfg   \in [tie_policy : {"None"}, backend : {"none"}, draws : {MaxDraw},
                  human : {NoId, ExecutionerId}]
    /\ role  = Cast5
    /\ alive = [i \in DOMAIN Cast5 |-> TRUE]
    /\ gs    = GsInit
    /\ mod   = ModInit
    /\ fs    = FsInit
    /\ priv  = [i \in DOMAIN Cast5 |-> PrivInit]
    /\ stop  = FALSE
    /\ pc    = [i \in DOMAIN Cast5 |-> "none"]
    /\ cbar  = <<>>
    /\ stack = <<>>
    /\ drv   = <<>>
    /\ sbar  = <<>>
    /\ mpc   = "none"
    /\ hist  = [next |-> 0, before |-> [i \in DOMAIN Cast5 |-> TRUE], victim |-> NoId]
    /\ hpc   = "start"

SpecHuman == InitHuman /\ [][NextDay]_vars

(***************************************************************************)
(* SpecNight: one Night of the Moderator on a cast of six with two Mafia.  *)
(* Every player in turn submits the intent of its role or stays silent,    *)
(* players may be killed before the resolution, and resolve_night runs.    *)
(***************************************************************************)
Cast6 == CastOf(<<"Mafia", "Mafia", "Detective", "Doctor", "Maniac", "Citizen">>)

NightHistInit ==
    [ next   |-> 0,
      before |-> [i \in DOMAIN Cast6 |-> TRUE],
      counts |-> <<>>,
      shot   |-> NoId,
      heal   |-> NoId,
      maniac |-> NoId,
      deaths |-> <<>> ]

InitNight ==
    /\ cfg   \in [tie_policy : {"None"}, backend : {"none"}, draws : {MaxDraw}]
    /\ role  = Cast6
    /\ alive = [i \in DOMAIN Cast6 |-> TRUE]
    /\ gs    = GsInit
    /\ mod   = ModInit
    /\ fs    = FsInit
    /\ priv  = [i \in DOMAIN Cast6 |-> PrivInit]
    /\ stop  = FALSE
    /\ pc    = [i \in DOMAIN Cast6 |-> "none"]
    /\ cbar  = <<>>
    /\ stack = <<>>
    /\ drv   = <<>>
    /\ sbar  = <<>>
    /\ mpc   = "none"
    /\ hist  = NightHistInit
    /\ hpc   = "start"

\* the round is opened: the buffers are sized for the cast
NClearDayVotes ==
    /\ hpc = "start"
    /\ mod' = clear_day_votes(mod, alive)
    /\ hpc' = "night"
    /\ UNCHANGED <<alive, fs, hist>>
    /\ EngineUnchanged

NTurn(r) ==
    /\ hpc = "night"
    /\ hist.next < NP
    /\ role[hist.next] = r
    /\ hist' = [hist EXCEPT !.next = @ + 1]
    /\ UNCHANGED <<alive, fs, hpc>>
    /\ EngineUnchanged

NMafiaVoteTarget ==
    /\ NTurn("Mafia")
    /\ \E t \in Ids : mod' = mafia_vote_target(mod, alive, hist.next, t)

NSetDetectiveShot ==
    /\ NTurn("Detective")
    /\ \E t \in Ids : mod' = set_detective_shot(mod, alive, hist.next, t)

NSetDoctorHeal ==
    /\ NTurn("Doctor")
    /\ \E t \in Ids : mod' = set_doctor_heal(mod, alive, hist.next, t)

NSetManiacTarget ==
    /\ NTurn("Maniac")
    /\ \E t \in Ids : mod' = set_maniac_target(mod, alive, hist.next, t)

\* a player that submits nothing this night
NSilent ==
    /\ NTurn(role[hist.next])
    /\ mod' = mod

NKillPlayer ==
    /\ hpc = "night"
    /\ hist.next = NP
    /\ NP - alive_count_(alive) < MaxDead
    /\ \E id \in AliveIds(alive) : alive' = kill_player(alive, id)
    /\ UNCHANGED <<mod, fs, hist, hpc>>
    /\ EngineUnchanged

NResolveNight ==
    /\ hpc = "night"
    /\ hist.next = NP
    /\ \E r \in resolve_night(mod, alive, fs) :
          /\ mod' = r.mod
          /\ alive' = r.alive
          /\ fs' = r.fs
          /\ hist' = [hist EXCEPT !.before = alive,
                                  !.counts = mod.mafia_vote_counts,
                                  !.shot   = mod.detective_shot,
                                  !.heal   = mod.doctor_heal,
                                  !.maniac = mod.maniac_target,
                                  !.deaths = r.deaths]
    /\ hpc' = "resolved"
    /\ EngineUnchanged

NextNight ==
    \/ NClearDayVotes
    \/ NMafiaVoteTarget
    \/ NSetDetectiveShot
    \/ NSetDoctorHeal
    \/ NSetManiacTarget
    \/ NSilent
    \/ NKillPlayer
    \/ NResolveNight

SpecNight == InitNight /\ [][NextNight]_vars

(***************************************************************************)
(* SpecListen: one Night of a cast with a Journalist and an Eavesdropper.  *)
(* The players submit in id order as in SpecNight: the Mafia before the    *)
(* Eavesdropper's request, the Detective, the Doctor and the Maniac after  *)
(* it, the Journalist last.                                                *)
(***************************************************************************)
Cast6L == CastOf(<<"Mafia", "Eavesdropper", "Detective", "Doctor", "Maniac", "Journalist">>)

InitListen ==
    /\ cfg   \in [tie_policy : {"None"}, backend : {"none"}, draws : {MaxDraw}]
    /\ role  = Cast6L
    /\ alive = [i \in DOMAIN Cast6L |-> TRUE]
    /\ gs    = GsInit
    /\ mod   = ModInit
    /\ fs    = FsInit
    /\ priv  = [i \in DOMAIN Cast6L |-> PrivInit]
    /\ stop  = FALSE
    /\ pc    = [i \in DOMAIN Cast6L |-> "none"]
    /\ cbar  = <<>>
    /\ stack = <<>>
    /\ drv   = <<>>
    /\ sbar  = <<>>
    /\ mpc   = "none"
    /\ hist  = NightHistInit
    /\ hpc   = "start"

NSetJournalistCompare ==
    /\ NTurn("Journalist")
    /\ \E a \in Ids, b \in Ids :
          mod' = set_journalist_compare(mod, alive, hist.next, a, b)

NSetEavesdropperTarget ==
    /\ NTurn("Eavesdropper")
    /\ \E t \in Ids : mod' = set_eavesdropper_target(mod, alive, hist.next, t)

NextListen ==
    \/ NClearDayVotes
    \/ NMafiaVoteTarget
    \/ NSetDetectiveShot
    \/ NSetDoctorHeal
    \/ NSetManiacTarget
    \/ NSetJournalistCompare
    \/ NSetEavesdropperTarget
    \/ NSilent
    \/ NResolveNight

SpecListen == InitListen /\ [][NextListen]_vars

(***************************************************************************)
(* Engines: state shared by the cooperative and the threaded backend       *)
(***************************************************************************)
\* the order of the four barriers in a round
NextBarrier(b) ==
    CASE b = "day_start"   -> "day_end"
      [] b = "day_end"     -> "night_start"
      [] b = "night_start" -> "night_end"
      [] b = "night_end"   -> "day_start"

\* positions of an agent: about to arrive, waiting, resumed
Go(b)  == "go_" \o b
At(b)  == "at_" \o b
Chk(b) == "chk_" \o b

HistInit ==
    [ nres      |-> [day |-> 0, night |-> 0],       \* resolutions run so far
      hookdone  |-> [day |-> {}, night |-> {}],     \* agents past their body, this round
      nhooks    |-> 0,                              \* hook bodies executed by alive agents
      arrivals  |-> [b \in Barriers |-> 0],         \* PhaseBarrier arrivals
      completes |-> [b \in Barriers |-> 0],         \* on_complete invocations finished
      passed    |-> [b \in Barriers |-> [i \in DOMAIN Cast4 |-> 0]],   \* resumptions
      reached   |-> [b \in Barriers |-> [i \in DOMAIN Cast4 |-> 0]] ]  \* arrivals per agent

InitCommon(backend, policies, draws) ==
    /\ cfg   \in [tie_policy : policies, backend : {backend}, draws : {draws},
                  human : {NoId}]
    /\ role  \in Casts
    /\ alive = [i \in DOMAIN Cast4 |-> TRUE]
    /\ gs    = GsInit
    /\ mod   = ModInit
    /\ fs    = FsInit
    /\ priv  = [i \in DOMAIN Cast4 |-> PrivInit]
    /\ stop  = FALSE
    /\ hist  = HistInit
    /\ hpc   = "none"

\* the outcome is computed but not recorded
set_game_over_dropped(g, w) == g

\* GameState::set_game_over
set_game_over(g, w) == [g EXCEPT !.game_over = (w # "None"), !.winner = w]

\* check_end_conditions_ (the same in both engines): [over, gs, mod, fs]
check_end_conditions_(m, al, f, g) ==
    LET w == evaluate_winner(al)
    IN  IF w # "None"
        THEN LET fin == finalize_round_file_if_pending(m, f)
             IN  [over |-> TRUE, gs |-> set_game_over(g, w), mod |-> fin.mod,
                  fs |-> write_summary_file(fin.fs, al)]
        ELSE [over |-> FALSE, gs |-> g, mod |-> m, fs |-> f]

(***************************************************************************)
(* Cooperative backend: coro::PhaseBarrier, coro::task, GameEngineCoro     *)
(***************************************************************************)
InitCoro ==
    /\ InitCommon("coro", TiePolicies, MaxDraw)
    /\ pc    = [i \in DOMAIN Cast4 |-> "start"]
    /\ cbar  = [b \in Barriers |-> [arrived |-> 0, waiters |-> <<>>]]
    /\ stack = <<>>
    /\ drv   = [pc |-> "while", i |-> 0, progressed |-> FALSE]
    /\ sbar  = <<>>
    /\ mpc   = "none"

MTUnchanged == UNCHANGED <<sbar, mpc>>

TaskFrame(i)   == [k |-> "task", id |-> i, bar |-> "none", at |-> "run", ws |-> <<>>, i |-> 0]
\* a completion whose resume loop starts at the second waiter
ArriveFrame_skips_first(b, i) ==
    [k |-> "arrive", id |-> i, bar |-> b, at |-> "cb", ws |-> <<>>, i |-> 2]

ArriveFrame(b, i) == [k |-> "arrive", id |-> i, bar |-> b, at |-> "cb", ws |-> <<>>, i |-> 1]

Top      == stack[Len(stack)]
Pop      == SubSeq(stack, 1, Len(stack) - 1)
Running(i) == stack # <<>> /\ Top.k = "task" /\ Top.id = i

\* coroutine_handle::resume: the task continues after its suspension point
Resumed(p) ==
    IF p = "start" THEN Go("day_start")
    ELSE CHOOSE q \in {Chk(b) : b \in Barriers} : \E b \in Barriers : p = At(b) /\ q = Chk(b)

task_done(i) == pc[i] = "done"

\* while (!stop_ && !is_game_over())
DrvWhile ==
    /\ cfg.backend = "coro" /\ stack = <<>> /\ drv.pc = "while"
    /\ drv' = IF ~stop /\ ~gs.game_over
              THEN [pc |-> "for", i |-> 0, progressed |-> FALSE]
              ELSE [drv EXCEPT !.pc = "exit"]
    /\ UNCHANGED <<cfg, role, alive, gs, mod, fs, priv, stop, pc, cbar, stack, hist, hpc>>
    /\ MTUnchanged

\* for (auto& t : tasks) if (!t.done()) { t.resume(); progressed = true; }
DrvResume ==
    /\ cfg.backend = "coro" /\ stack = <<>> /\ drv.pc = "for" /\ drv.i < NP
    /\ IF ~task_done(drv.i)
       THEN /\ pc' = [pc EXCEPT ![drv.i] = Resumed(@)]
            /\ stack' = <<TaskFrame(drv.i)>>
            /\ drv' = [drv EXCEPT !.i = @ + 1, !.progressed = TRUE]
       ELSE /\ drv' = [drv EXCEPT !.i = @ + 1]
            /\ UNCHANGED <<pc, stack>>
    /\ UNCHANGED <<cfg, role, alive, gs, mod, fs, priv, stop, cbar, hist, hpc>>
    /\ MTUnchanged

\* end of the pass: if nothing progressed every task is done and the loop breaks
DrvPassEnd ==
    /\ cfg.backend = "coro" /\ stack = <<>> /\ drv.pc = "for" /\ drv.i = NP
    /\ drv' = IF ~drv.progressed /\ \A i \in Ids : task_done(i)
              THEN [drv EXCEPT !.pc = "exit"]
              ELSE [drv EXCEPT !.pc = "while"]
    /\ UNCHANGED <<cfg, role, alive, gs, mod, fs, priv, stop, pc, cbar, stack, hist, hpc>>
    /\ MTUnchanged

\* after the loop: finalize_round_file_if_pending(), run() returns
DrvExit ==
    /\ cfg.backend = "coro" /\ stack = <<>> /\ drv.pc = "exit"
    /\ LET fin == finalize_round_file_if_pending(mod, fs)
       IN  mod' = fin.mod /\ fs' = fin.fs
    /\ drv' = [drv EXCEPT !.pc = "returned"]
    /\ UNCHANGED <<cfg, role, alive, gs, priv, stop, pc, cbar, stack, hist, hpc>>
    /\ MTUnchanged

\* the barrier completes with an arrival count that is one short
PhaseComplete_early(arrived, expected) == arrived + 1 = expected

\* if (arrived_ == expected_)
PhaseComplete(arrived, expected) == arrived = expected

\* after co_await b.arrive(): if (stop_) co_return; else on to the next statement
AfterBarrier(b) ==
    CASE b = "day_start"   -> "hook_day"
      [] b = "day_end"     -> Go("night_start")
      [] b = "night_start" -> "hook_night"
      [] b = "night_end"   -> Go("day_start")

TaskWake(i) ==
    /\ cfg.backend = "coro" /\ Running(i)
    /\ \E b \in Barriers :
          /\ pc[i] = Chk(b)
          /\ hist' = [hist EXCEPT !.passed[b][i] = @ + 1]
          /\ IF stop
             THEN pc' = [pc EXCEPT ![i] = "done"] /\ stack' = Pop
             ELSE pc' = [pc EXCEPT ![i] = AfterBarrier(b)] /\ UNCHANGED stack
    /\ UNCHANGED <<cfg, role, alive, gs, mod, fs, priv, stop, cbar, drv, hpc>>
    /\ MTUnchanged

\* the day body of player_task_
TaskDay(i) ==
    /\ cfg.backend = "coro" /\ Running(i) /\ pc[i] = "hook_day"
    /\ IF alive[i]
       THEN /\ \E r \in DayHook(mod, alive, priv[i], i) :
                  mod' = r.mod /\ priv' = [priv EXCEPT ![i] = r.priv]
            /\ hist' = [hist EXCEPT !.hookdone.day = @ \cup {i}, !.nhooks = @ + 1]
       ELSE /\ hist' = [hist EXCEPT !.hookdone.day = @ \cup {i}]
            /\ UNCHANGED <<mod, priv>>
    /\ pc' = [pc EXCEPT ![i] = Go("day_end")]
    /\ UNCHANGED <<cfg, role, alive, gs, fs, stop, cbar, stack, drv, hpc>>
    /\ MTUnchanged

\* the night body of player_task_
TaskNight(i) ==
    /\ cfg.backend = "coro" /\ Running(i) /\ pc[i] = "hook_night"
    /\ IF alive[i]
       THEN /\ \E r \in on_night(mod, alive, priv[i], i) :
                  mod' = r.mod /\ priv' = [priv EXCEPT ![i] = r.priv]
            /\ hist' = [hist EXCEPT !.hookdone.night = @ \cup {i}, !.nhooks = @ + 1]
       ELSE /\ hist' = [hist EXCEPT !.hookdone.night = @ \cup {i}]
            /\ UNCHANGED <<mod, priv>>
    /\ pc' = [pc EXCEPT ![i] = Go("night_end")]
    /\ UNCHANGED <<cfg, role, alive, gs, fs, stop, cbar, stack, drv, hpc>>
    /\ MTUnchanged

\* co_await b.arrive(): await_suspend -> on_arrive_(h), up to the test of
\* the arrival count
TaskArrive(i) ==
    /\ cfg.backend = "coro" /\ Running(i)
    /\ \E b \in Barriers :
          /\ pc[i] = Go(b)
          /\ pc' = [pc EXCEPT ![i] = At(b)]
          /\ hist' = [hist EXCEPT !.arrivals[b] = @ + 1, !.reached[b][i] = @ + 1]
          /\ IF PhaseComplete(cbar[b].arrived + 1, NP)
             THEN /\ cbar' = [cbar EXCEPT ![b].waiters = Append(@, i), ![b].arrived = 0]
                  /\ stack' = Append(Pop, ArriveFrame(b, i))
             ELSE /\ cbar' = [cbar EXCEPT ![b].waiters = Append(@, i),
                                          ![b].arrived = @ + 1]
                  /\ stack' = Pop
    /\ UNCHANGED <<cfg, role, alive, gs, mod, fs, priv, stop, drv, hpc>>
    /\ MTUnchanged

\* The on_complete callbacks installed by GameEngineCoro::run.
CbDayStart ==
    /\ mod' = clear_day_votes(mod, alive)
    /\ gs' = [gs EXCEPT !.phase = "Day"]
    /\ hist' = [hist EXCEPT !.completes["day_start"] = @ + 1,
                            !.hookdone = [day |-> {}, night |-> {}]]
    /\ UNCHANGED <<alive, fs, stop>>

CbDayEnd ==
    \E r \in resolve_day_lynch(mod, alive, cfg.tie_policy) :
       LET e == check_end_conditions_(r.mod, r.alive, fs, gs)
       IN  /\ alive' = r.alive
           /\ mod' = e.mod
           /\ fs' = e.fs
           /\ gs' = IF e.over THEN e.gs ELSE [gs EXCEPT !.phase = "Night"]
           /\ stop' = (stop \/ e.over)
           /\ hist' = [hist EXCEPT !.completes["day_end"] = @ + 1, !.nres.day = @ + 1]

CbNightStart ==
    /\ hist' = [hist EXCEPT !.completes["night_start"] = @ + 1]
    /\ UNCHANGED <<alive, mod, fs, gs, stop>>

CbNightEnd ==
    \E r \in resolve_night(mod, alive, fs) :
       LET e == check_end_conditions_(r.mod, r.alive, r.fs, gs)
       IN  /\ e.over \/ gs.round < MaxRound
           /\ alive' = r.alive
           /\ mod' = e.mod
           /\ fs' = e.fs
           /\ gs' = IF e.over THEN e.gs ELSE next_round(gs)
           /\ stop' = (stop \/ e.over)
           /\ hist' = [hist EXCEPT !.completes["night_end"] = @ + 1, !.nres.night = @ + 1]

\* an on_arrive_ that copies the waiters and leaves them in the barrier
ArriveCallback_keeps ==
    /\ cfg.backend = "coro" /\ stack # <<>> /\ Top.k = "arrive" /\ Top.at = "cb"
    /\ CASE Top.bar = "day_start"   -> CbDayStart
         [] Top.bar = "day_end"     -> CbDayEnd
         [] Top.bar = "night_start" -> CbNightStart
         [] Top.bar = "night_end"   -> CbNightEnd
    /\ stack' = Append(Pop, [Top EXCEPT !.at = "loop", !.ws = cbar[Top.bar].waiters])
    /\ cbar' = cbar
    /\ UNCHANGED <<cfg, role, priv, pc, drv, hpc>>
    /\ MTUnchanged

\* on_arrive_, the last arrival: on_complete_(), then the waiters are moved out
ArriveCallback ==
    /\ cfg.backend = "coro" /\ stack # <<>> /\ Top.k = "arrive" /\ Top.at = "cb"
    /\ CASE Top.bar = "day_start"   -> CbDayStart
         [] Top.bar = "day_end"     -> CbDayEnd
         [] Top.bar = "night_start" -> CbNightStart
         [] Top.bar = "night_end"   -> CbNightEnd
    /\ stack' = Append(Pop, [Top EXCEPT !.at = "loop", !.ws = cbar[Top.bar].waiters])
    /\ cbar' = [cbar EXCEPT ![Top.bar].waiters = <<>>]
    /\ UNCHANGED <<cfg, role, priv, pc, drv, hpc>>
    /\ MTUnchanged

\* for (auto hh : ws) if (hh && !hh.done()) hh.resume();  then on_arrive_ returns
ArriveResume ==
    /\ cfg.backend = "coro" /\ stack # <<>> /\ Top.k = "arrive" /\ Top.at = "loop"
    /\ IF Top.i <= Len(Top.ws)
       THEN LET h == Top.ws[Top.i]
                f == [Top EXCEPT !.i = @ + 1]
            IN  IF ~task_done(h)
                THEN /\ pc' = [pc EXCEPT ![h] = Resumed(@)]
                     /\ stack' = Append(Append(Pop, f), TaskFrame(h))
                ELSE /\ stack' = Append(Pop, f)
                     /\ UNCHANGED pc
       ELSE /\ stack' = Pop
            /\ UNCHANGED pc
    /\ UNCHANGED <<cfg, role, alive, gs, mod, fs, priv, stop, cbar, drv, hist, hpc>>
    /\ MTUnchanged

NextCoro ==
    \/ DrvWhile
    \/ DrvResume
    \/ DrvPassEnd
    \/ DrvExit
    \/ \E i \in Ids : TaskWake(i)
    \/ \E i \in Ids : TaskDay(i)
    \/ \E i \in Ids : TaskNight(i)
    \/ \E i \in Ids : TaskArrive(i)
    \/ ArriveCallback
    \/ ArriveResume

SpecCoro == InitCoro /\ [][NextCoro]_vars

(***************************************************************************)
(* Threaded backend: std::barrier, GameEngine                              *)
(***************************************************************************)
\* the engine (moderator) thread as a barrier participant
ModThread == NP

InitMT ==
    /\ InitCommon("mt", {"None"}, MaxDrawMT)
    /\ pc    = [i \in DOMAIN Cast4 |-> "top"]
    /\ sbar  = [b \in Barriers |->
                  [expected |-> Cardinality(DOMAIN Cast4) + 1,
                   remaining |-> Cardinality(DOMAIN Cast4) + 1,
                   waiting |-> {}, released |-> {}]]
    /\ mpc   = "loop"
    /\ cbar  = <<>>
    /\ stack = <<>>
    /\ drv   = <<>>

CoroUnchanged == UNCHANGED <<cbar, stack, drv>>

\* a barrier whose phase completes one arrival short
barrier_arrive_early(bs, t) ==
    IF bs.remaining - 1 <= 1
    THEN [bs EXCEPT !.remaining = bs.expected, !.waiting = {},
                    !.released = @ \cup bs.waiting \cup {t}]
    ELSE [bs EXCEPT !.remaining = @ - 1, !.waiting = @ \cup {t}]

\* std::barrier::arrive_and_wait, the arrival of thread t: the last arrival
\* of the phase releases the waiting threads and starts the next phase
barrier_arrive(bs, t) ==
    IF bs.remaining - 1 = 0
    THEN [bs EXCEPT !.remaining = bs.expected, !.waiting = {},
                    !.released = @ \cup bs.waiting \cup {t}]
    ELSE [bs EXCEPT !.remaining = @ - 1, !.waiting = @ \cup {t}]

\* std::barrier::arrive_and_drop: one participant less in the later phases,
\* and one arrival in the current phase
barrier_arrive_and_drop(bs) ==
    IF bs.remaining - 1 = 0
    THEN [bs EXCEPT !.expected = @ - 1, !.remaining = bs.expected - 1, !.waiting = {},
                    !.released = @ \cup bs.waiting]
    ELSE [bs EXCEPT !.expected = @ - 1, !.remaining = @ - 1]

\* a loop that goes from night_end straight into the next day body
AfterBarrierMT_no_day_start(b) ==
    CASE b = "day_start"   -> "hook_day"
      [] b = "day_end"     -> Go("night_start")
      [] b = "night_start" -> "hook_night"
      [] b = "night_end"   -> "hook_day"

\* player_thread_loop_: the statement after arrive_and_wait and its stop test.
\* After night_end the loop tests stop_ twice in a row (end of the body, top
\* of the loop) with nothing in between: stop_ only goes false -> true, so
\* the pair is one test taken at the time of the second load.
AfterBarrierMT(b) ==
    CASE b = "day_start"   -> "hook_day"
      [] b = "day_end"     -> Go("night_start")
      [] b = "night_start" -> "hook_night"
      [] b = "night_end"   -> Go("day_start")

\* for (;;) { if (stop_.load()) break;
AgTop(i) ==
    /\ cfg.backend = "mt" /\ pc[i] = "top"
    /\ pc' = [pc EXCEPT ![i] = IF stop THEN "exited" ELSE Go("day_start")]
    /\ UNCHANGED <<cfg, role, alive, gs, mod, fs, priv, stop, sbar, mpc, hist, hpc>>
    /\ CoroUnchanged

\* b->arrive_and_wait(): the arrival
AgArrive(i) ==
    /\ cfg.backend = "mt"
    /\ \E b \in Barriers :
          /\ pc[i] = Go(b)
          /\ sbar' = [sbar EXCEPT ![b] = barrier_arrive(@, i)]
          /\ pc' = [pc EXCEPT ![i] = At(b)]
          /\ hist' = [hist EXCEPT !.reached[b][i] = @ + 1]
    /\ UNCHANGED <<cfg, role, alive, gs, mod, fs, priv, stop, mpc, hpc>>
    /\ CoroUnchanged

\* b->arrive_and_wait() returns; if (stop_.load()) break;
AgWake(i) ==
    /\ cfg.backend = "mt"
    /\ \E b \in Barriers :
          /\ pc[i] = At(b)
          /\ i \in sbar[b].released
          /\ sbar' = [sbar EXCEPT ![b].released = @ \ {i}]
          /\ pc' = [pc EXCEPT ![i] = IF stop THEN "exited" ELSE AfterBarrierMT(b)]
    /\ UNCHANGED <<cfg, role, alive, gs, mod, fs, priv, stop, mpc, hist, hpc>>
    /\ CoroUnchanged

\* the day body (on_day, vote_day, ensure_valid_day_target, submit_day_vote)
\* and the arrival at day_end that follows it: between the two the thread
\* touches nothing shared
AgDay(i) ==
    /\ cfg.backend = "mt" /\ pc[i] = "hook_day"
    /\ IF alive[i]
       THEN /\ \E r \in DayHook(mod, alive, priv[i], i) :
                  mod' = r.mod /\ priv' = [priv EXCEPT ![i] = r.priv]
            /\ hist' = [hist EXCEPT !.hookdone.day = @ \cup {i}, !.nhooks = @ + 1,
                                    !.reached["day_end"][i] = @ + 1]
       ELSE /\ hist' = [hist EXCEPT !.hookdone.day = @ \cup {i},
                                    !.reached["day_end"][i] = @ + 1]
            /\ UNCHANGED <<mod, priv>>
    /\ sbar' = [sbar EXCEPT !["day_end"] = barrier_arrive(@, i)]
    /\ pc' = [pc EXCEPT ![i] = At("day_end")]
    /\ UNCHANGED <<cfg, role, alive, gs, fs, stop, mpc, hpc>>
    /\ CoroUnchanged

\* the night body (on_night) and the arrival at night_end that follows it
AgNight(i) ==
    /\ cfg.backend = "mt" /\ pc[i] = "hook_night"
    /\ IF alive[i]
       THEN /\ \E r \in on_night(mod, alive, priv[i], i) :
                  mod' = r.mod /\ priv' = [priv EXCEPT ![i] = r.priv]
            /\ hist' = [hist EXCEPT !.hookdone.night = @ \cup {i}, !.nhooks = @ + 1,
                                    !.reached["night_end"][i] = @ + 1]
       ELSE /\ hist' = [hist EXCEPT !.hookdone.night = @ \cup {i},
                                    !.reached["night_end"][i] = @ + 1]
            /\ UNCHANGED <<mod, priv>>
    /\ sbar' = [sbar EXCEPT !["night_end"] = barrier_arrive(@, i)]
    /\ pc' = [pc EXCEPT ![i] = At("night_end")]
    /\ UNCHANGED <<cfg, role, alive, gs, fs, stop, mpc, hpc>>
    /\ CoroUnchanged

\* GameEngine::run, top of the loop: set_phase(Day) and, in
\* do_day_cycle_mt_, clear_day_votes()
MLoop ==
    /\ cfg.backend = "mt" /\ mpc = "loop"
    /\ IF ~stop /\ ~gs.game_over
       THEN /\ gs' = [gs EXCEPT !.phase = "Day"]
            /\ mod' = clear_day_votes(mod, alive)
            /\ hist' = [hist EXCEPT !.hookdone = [day |-> {}, night |-> {}]]
            /\ mpc' = Go("day_start")
       ELSE /\ mpc' = "stopping"
            /\ UNCHANGED <<gs, mod, hist>>
    /\ UNCHANGED <<cfg, role, alive, fs, priv, stop, pc, sbar, hpc>>
    /\ CoroUnchanged

\* b->arrive_and_wait() of the engine thread: the arrival
MArrive ==
    /\ cfg.backend = "mt"
    /\ \E b \in Barriers :
          /\ mpc = Go(b)
          /\ sbar' = [sbar EXCEPT ![b] = barrier_arrive(@, ModThread)]
          /\ mpc' = At(b)
    /\ UNCHANGED <<cfg, role, alive, gs, mod, fs, priv, stop, pc, hist, hpc>>
    /\ CoroUnchanged

\* the engine thread leaves a start barrier and goes on to the end barrier
MWakeStart ==
    /\ cfg.backend = "mt"
    /\ \E b \in {"day_start", "night_start"} :
          /\ mpc = At(b)
          /\ ModThread \in sbar[b].released
          /\ sbar' = [sbar EXCEPT ![b].released = @ \ {ModThread}]
          /\ mpc' = Go(NextBarrier(b))
    /\ UNCHANGED <<cfg, role, alive, gs, mod, fs, priv, stop, pc, hist, hpc>>
    /\ CoroUnchanged

\* the engine thread leaves an end barrier and enters the resolution
MWakeEnd ==
    /\ cfg.backend = "mt"
    /\ \E ph \in {"day", "night"} :
          /\ mpc = At(ph \o "_end")
          /\ ModThread \in sbar[ph \o "_end"].released
          /\ sbar' = [sbar EXCEPT ![ph \o "_end"].released = @ \ {ModThread}]
          /\ mpc' = "in_res_" \o ph
    /\ UNCHANGED <<cfg, role, alive, gs, mod, fs, priv, stop, pc, hist, hpc>>
    /\ CoroUnchanged

\* do_day_cycle_mt_: resolve_day_lynch()
MResolveDay ==
    /\ cfg.backend = "mt" /\ mpc = "in_res_day"
    /\ \E r \in resolve_day_lynch(mod, alive, cfg.tie_policy) :
          mod' = r.mod /\ alive' = r.alive
    /\ hist' = [hist EXCEPT !.nres.day = @ + 1]
    /\ mpc' = "chk_day"
    /\ UNCHANGED <<cfg, role, gs, fs, priv, stop, pc, sbar, hpc>>
    /\ CoroUnchanged

\* if (check_end_conditions_()) break; set_phase(Night);
MCheckDay ==
    /\ cfg.backend = "mt" /\ mpc = "chk_day"
    /\ LET e == check_end_conditions_(mod, alive, fs, gs)
       IN  /\ mod' = e.mod /\ fs' = e.fs
           /\ gs' = IF e.over THEN e.gs ELSE [gs EXCEPT !.phase = "Night"]
           /\ mpc' = IF e.over THEN "stopping" ELSE Go("night_start")
    /\ UNCHANGED <<cfg, role, alive, priv, stop, pc, sbar, hist, hpc>>
    /\ CoroUnchanged

\* do_night_cycle_mt_: resolve_night()
MResolveNightMT ==
    /\ cfg.backend = "mt" /\ mpc = "in_res_night"
    /\ \E r \in resolve_night(mod, alive, fs) :
          mod' = r.mod /\ alive' = r.alive /\ fs' = r.fs
    /\ hist' = [hist EXCEPT !.nres.night = @ + 1]
    /\ mpc' = "chk_night"
    /\ UNCHANGED <<cfg, role, gs, priv, stop, pc, sbar, hpc>>
    /\ CoroUnchanged

\* if (check_end_conditions_()) break; next_round();
MCheckNight ==
    /\ cfg.backend = "mt" /\ mpc = "chk_night"
    /\ LET e == check_end_conditions_(mod, alive, fs, gs)
       IN  /\ e.over \/ gs.round < MaxRound
           /\ mod' = e.mod /\ fs' = e.fs
           /\ gs' = IF e.over THEN e.gs ELSE next_round(gs)
           /\ mpc' = IF e.over THEN "stopping" ELSE "loop"
    /\ UNCHANGED <<cfg, role, alive, priv, stop, pc, sbar, hist, hpc>>
    /\ CoroUnchanged

\* stop_player_threads_: stop_.store(true)
MStop ==
    /\ cfg.backend = "mt" /\ mpc = "stopping"
    /\ stop' = TRUE
    /\ mpc' = "drop_day_start"
    /\ UNCHANGED <<cfg, role, alive, gs, mod, fs, priv, pc, sbar, hist, hpc>>
    /\ CoroUnchanged

\* stop_player_threads_: arrive_and_drop() on the four barriers in turn
MDrop ==
    /\ cfg.backend = "mt"
    /\ \E b \in Barriers :
          /\ mpc = "drop_" \o b
          /\ sbar' = [sbar EXCEPT ![b] = barrier_arrive_and_drop(@)]
          /\ mpc' = IF b = "night_end" THEN "join" ELSE "drop_" \o NextBarrier(b)
    /\ UNCHANGED <<cfg, role, alive, gs, mod, fs, priv, stop, pc, hist, hpc>>
    /\ CoroUnchanged

\* player_threads_.clear(): every jthread is joined
MJoin ==
    /\ cfg.backend = "mt" /\ mpc = "join"
    /\ \A i \in Ids : pc[i] = "exited"
    /\ mpc' = "returned"
    /\ UNCHANGED <<cfg, role, alive, gs, mod, fs, priv, stop, pc, sbar, hist, hpc>>
    /\ CoroUnchanged

NextMT ==
    \/ \E i \in Ids : AgTop(i)
    \/ \E i \in Ids : AgArrive(i)
    \/ \E i \in Ids : AgWake(i)
    \/ \E i \in Ids : AgDay(i)
    \/ \E i \in Ids : AgNight(i)
    \/ MLoop
    \/ MArrive
    \/ MWakeStart
    \/ MWakeEnd
    \/ MResolveDay
    \/ MCheckDay
    \/ MResolveNightMT
    \/ MCheckNight
    \/ MStop
    \/ MDrop
    \/ MJoin

SpecMT == InitMT /\ [][NextMT]_vars

(***************************************************************************)
(* Properties of the cooperative barrier (SpecCoro)                        *)
(***************************************************************************)
\* C1: in every cycle of a PhaseBarrier on_complete is invoked exactly once,
\* at the expected-th arrival; a party is resumed from the barrier only
\* after the on_complete of that cycle has finished, and never before the
\* expected-th arrival of that cycle.
C1_BarrierCallbackOnce ==
    cfg.backend = "coro" =>
      \A b \in Barriers :
        LET pending == \E k \in 1..Len(stack) :
                          stack[k].k = "arrive" /\ stack[k].bar = b /\ stack[k].at = "cb"
            cycles  == (hist.arrivals[b] - cbar[b].arrived) \div NP
        IN  /\ cbar[b].arrived < NP
            /\ hist.arrivals[b] = cycles * NP + cbar[b].arrived
            /\ hist.completes[b] = cycles - (IF pending THEN 1 ELSE 0)
            /\ \A i \in Ids :
                  LET resumed == hist.passed[b][i] + (IF pc[i] = Chk(b) THEN 1 ELSE 0)
                  IN  /\ resumed <= hist.completes[b]
                      /\ resumed * NP <= hist.arrivals[b]

\* the second cycle of the day_end barrier has completed and every party,
\* the last arriver included, has been resumed from it twice
C1_Witness ==
    /\ cfg.backend = "coro"
    /\ hist.completes["day_end"] = 2
    /\ hist.arrivals["day_end"] = 2 * NP
    /\ \A i \in Ids : hist.passed["day_end"][i] = 2

(***************************************************************************)
(* Properties of the threaded shutdown (SpecMT)                            *)
(***************************************************************************)
\* C2: once the engine thread has set stop and called arrive_and_drop on the
\* four barriers, no agent thread stays blocked at a barrier forever: a
\* state in which the engine waits in join and every agent thread that has
\* not left its loop is blocked at a barrier nobody else can complete (no
\* thread can take a step any more) does not occur.
C2_ShutdownReleasesAgents ==
    LET blocked(i) == \E b \in Barriers : pc[i] = At(b) /\ i \notin sbar[b].released
    IN  (cfg.backend = "mt" /\ mpc = "join"
           /\ \A i \in Ids : pc[i] = "exited" \/ blocked(i))
        => \A i \in Ids : pc[i] = "exited"

(***************************************************************************)
(* Both backends: a match runs on one engine or the other                  *)
(***************************************************************************)
Init == InitCoro \/ InitMT

Next == NextCoro \/ NextMT

Spec == Init /\ [][Next]_vars

\* C3: in both backends the day (night) resolution of a round runs only
\* when all N agents are past their day (night) body of that round, no agent
\* is inside a phase body while a resolution runs, and each resolution runs
\* exactly once per round: the count of resolutions is the round number
\* once the round's resolution has run and one less before.
C3_ResolutionAfterAllHooks ==
    \A ph \in {"day", "night"} :
      LET resolving == IF cfg.backend = "mt"
                       THEN mpc = "in_res_" \o ph
                       ELSE /\ stack # <<>>
                            /\ Top.k = "arrive" /\ Top.at = "cb"
                            /\ Top.bar = ph \o "_end"
      IN  /\ hist.nres[ph] \in {gs.round - 1, gs.round}
          /\ hist.nres[ph] = gs.round => hist.hookdone[ph] = Ids
          /\ resolving =>
                /\ hist.hookdone[ph] = Ids
                /\ hist.nres[ph] = gs.round - 1
                /\ \A i \in Ids : pc[i] \notin {"hook_day", "hook_night"}

\* the threaded engine has resolved the day of round 2, after one day and
\* one night resolution in round 1
C3_Witness ==
    /\ cfg.backend = "mt"
    /\ mpc = "chk_day"
    /\ gs.round = 2
    /\ hist.nres.day = 2 /\ hist.nres.night = 1
    /\ hist.hookdone.day = Ids


\* C18: GameState.round starts at 1 and never decreases; it grows by one, and
\* only in a step after which the night of that round is resolved and the
\* match is not over; a step that leaves the match over (ended during the Day
\* or at the end of the Night) leaves the round as it is; and every Day that
\* is resolved is the Day of the current round, so each completed round was
\* counted exactly once.
C18_RoundCounter ==
    /\ gs.round = 1
    /\ [][ /\ gs'.round \in {gs.round, gs.round + 1}
           /\ gs'.round = gs.round + 1 =>
                 /\ hist'.nres.night = gs.round
                 /\ hist'.nres.day = gs.round
                 /\ ~gs.game_over /\ ~gs'.game_over
           /\ gs'.game_over => gs'.round = gs.round
           /\ hist'.nres.day # hist.nres.day => hist'.nres.day = gs.round
           /\ hist'.nres.night # hist.nres.night => hist'.nres.night = gs.round ]_vars

\* the match ended during the Day of round 2: one night was completed, the
\* round was counted once and is not counted again
C18_Witness ==
    /\ gs.game_over
    /\ gs.round = 2
    /\ hist.nres.day = 2
    /\ hist.nres.night = 1


C6_TerminalIsFinal ==
    [][ evaluate_winner(alive) # "None" =>
          /\ gs.game_over \/ (cfg.backend = "mt" /\ mpc \in {"chk_day", "chk_night"})
          /\ gs.game_over => (gs.winner = evaluate_winner(alive) /\ gs' = gs)
          /\ ~gs.game_over =>
                (gs' = gs \/ (gs'.game_over /\ gs'.winner = evaluate_winner(alive)))
          /\ alive' = alive
          /\ hist'.nres = hist.nres
          /\ hist'.nhooks = hist.nhooks
          /\ hist'.hookdone = hist.hookdone
          /\ \A k \in {"day_votes", "day_voted_flag", "mafia_vote_counts",
                       "detective_shot", "doctor_heal", "maniac_target",
                       "journalist_queries", "eavesdrop_requests"} :
                mod'[k] = mod[k] ]_vars

\* a match on the threaded engine has ended with a winner and run() has
\* joined the agents
C6_Witness ==
    /\ cfg.backend = "mt"
    /\ mpc = "returned"
    /\ gs.game_over
    /\ gs.winner = evaluate_winner(alive)
    /\ gs.winner # "None"

\* C8: with nobody alive the engine aborts instead of reporting a winner:
\* no match ends with game_over set and a winner recorded while no player is
\* alive.
C8_NobodyAliveAborts ==
    ~(gs.game_over /\ gs.winner # "None" /\ \A i \in Ids : ~alive[i])

\* the journal lines a step adds to the round's journal
NewLines ==
    LET old == mod.round_log
        new == mod'.round_log
    IN  IF Len(new) >= Len(old) /\ SubSeq(new, 1, Len(old)) = old
        THEN {new[k] : k \in (Len(old) + 1)..Len(new)}
        ELSE {new[k] : k \in 1..Len(new)}

\* the resolution of the Night of the last round explored is pending
AtRoundBound ==
    /\ gs.round = MaxRound
    /\ \/ mpc = "chk_night"
       \/ stack # <<>> /\ Top.k = "arrive" /\ Top.at = "cb" /\ Top.bar = "night_end"

\* C34: every agent task, alive or dead, arrives at day_start, day_end,
\* night_start and night_end in that order, once per round (one arrival at
\* day_end for each Day resolved and one at night_end for each Night
\* resolved); while the match is running some task or the engine can always
\* take a step, so no barrier cycle stays short of a party; and the phase
\* body of a dead agent calls nothing: it leaves the Moderator and the
\* agent's own state as they are and goes on to the end barrier.
C34_AllAgentsArrive ==
    /\ [](\A i \in Ids :
            LET a(b) == hist.reached[b][i]
            IN  /\ a("day_start") >= a("day_end")
                /\ a("day_end") >= a("night_start")
                /\ a("night_start") >= a("night_end")
                /\ a("night_end") >= a("day_start") - 1
                /\ a("day_end") \in {hist.nres.day, hist.nres.day + 1}
                /\ a("night_end") \in {hist.nres.night, hist.nres.night + 1})
    /\ []((~stop /\ ~gs.game_over /\ ~AtRoundBound) => ENABLED Next)
    /\ [][\A i \in Ids :
            (~alive[i] /\ pc[i] \in {"hook_day", "hook_night"} /\ pc'[i] # pc[i]) =>
               /\ mod' = mod
               /\ priv' = priv
               /\ hist'.nhooks = hist.nhooks
               /\ pc'[i] \in {Go("day_end"), At("day_end"), Go("night_end"), At("night_end")}]_vars

\* a dead agent has arrived at the four barriers of round 1 and at the first
\* three of round 2, and the match is still running
C34_Witness ==
    \E i \in Ids :
       /\ ~alive[i]
       /\ ~gs.game_over /\ ~stop
       /\ hist.reached["night_end"][i] = 1
       /\ hist.reached["night_start"][i] = 2

\* C35: in the cooperative backend the driver loop resumes a task only from
\* its initial suspension, never one parked in a barrier; a task parked in a
\* barrier is resumed only by the resume loop of that barrier's completion,
\* after the on_complete of the cycle has run.
C35_ResumedByDriverOrBarrier ==
    [][cfg.backend = "coro" =>
        \A i \in Ids :
           /\ (stack = <<>> /\ pc'[i] # pc[i]) => (i = drv.i /\ pc[i] = "start")
           /\ \A b \in Barriers :
                 (pc[i] = At(b) /\ pc'[i] # pc[i]) =>
                    /\ pc'[i] = Chk(b)
                    /\ stack # <<>> /\ Top.k = "arrive" /\ Top.at = "loop" /\ Top.bar = b
                    /\ hist.completes[b] = hist.passed[b][i] + 1
                    /\ hist.reached[b][i] = hist.completes[b]]_vars

\* the driver has resumed every task once, each from its initial suspension,
\* and a task has been resumed from night_end by that barrier's completion
C35_Witness ==
    /\ cfg.backend = "coro"
    /\ drv.pc = "for" /\ drv.i = NP
    /\ \E i \in Ids : hist.passed["night_end"][i] = 1

\* C36: the Detective agent never investigates and shoots in the same
\* night: a night body that submits a shot adds nobody to the agent's list of
\* known Mafia, and one that investigates submits nothing; every shot targets
\* an alive player of team Mafia that was on the list before the night, and
\* the list only ever holds Mafia players its investigations confirmed, so
\* no Town player and no Maniac is shot.
C36_DetectiveShots ==
    /\ [](\A i \in Ids : \A t \in priv[i].known_mafia : role[t] = "Mafia")
    /\ [][\A i \in Ids :
            (role[i] = "Detective" /\ alive[i] /\ pc[i] = "hook_night" /\ pc'[i] # pc[i]) =>
               IF mod' = mod
               THEN priv'[i].known_mafia \ priv[i].known_mafia \subseteq
                       {t \in Ids : alive[t] /\ role[t] = "Mafia"}
               ELSE /\ priv'[i].known_mafia \subseteq priv[i].known_mafia
                    /\ mod'.detective_shot \in priv[i].known_mafia
                    /\ alive[mod'.detective_shot]
                    /\ role[mod'.detective_shot] = "Mafia"
                    /\ NewLines = {<<"NIGHT: detective-shot", mod'.detective_shot>>}]_vars

\* in the Night of round 2 the Detective has shot a player it found in the
\* Night of round 1
C36_Witness ==
    /\ gs.round = 2
    /\ mod.detective_shot # NoId
    /\ \E i \in Ids : role[i] = "Detective" /\ mod.detective_shot \in priv[i].known_mafia

\* C37: whenever evaluate_winner gives None after a resolution, so that the
\* match goes on into another phase, at least two players are alive: the
\* match never continues with a single surviving player.
C37_TwoAliveToContinue ==
    (hist.nres.day + hist.nres.night > 0 /\ evaluate_winner(alive) = "None") =>
       alive_count_(alive) >= 2

\* C40: in both backends the Moderator's round_index_ equals GameState.round
\* whenever an agent runs a phase body and whenever a resolution runs, so a
\* death is recorded with the state's round number and a round file that is
\* written carries it.
C40_RoundIndexIsRound ==
    [][ /\ (\E i \in Ids : pc[i] \in {"hook_day", "hook_night"} /\ pc'[i] # pc[i]) =>
              mod.round_index = gs.round
        /\ hist'.nres # hist.nres => mod.round_index = gs.round
        /\ \A i \in Ids : (alive[i] /\ ~alive'[i]) => mod'.stats_died_round[i] = gs.round
        /\ Len(fs'.rounds) > Len(fs.rounds) =>
              fs'.rounds[Len(fs'.rounds)].r = gs.round ]_vars

\* the Day of round 2 has been resolved and a player has died in round 2,
\* after another died in round 1
C40_Witness ==
    /\ gs.round = 2
    /\ mod.round_index = 2
    /\ hist.nres.day = 2
    /\ \E i, j \in Ids : mod.stats_died_round[i] = 1 /\ mod.stats_died_round[j] = 2

\* the on_arrive_ calls of barrier b that are in their resume loop
LoopsOf(b) ==
    {k \in 1..Len(stack) :
        stack[k].k = "arrive" /\ stack[k].bar = b /\ stack[k].at = "loop"}

\* C25: the cooperative PhaseBarrier is reusable - when a cycle has completed
\* arrived_ is 0 and the waiter list is empty; the loop resumes every party of
\* the cycle exactly once, in the order of arrival; a party that arrives at the
\* barrier again while that loop is still running is queued and counted for
\* the next cycle and is not resumed by the running loop.
C25_BarrierReusable ==
    [][(cfg.backend = "coro" /\ stack # <<>>) =>
        /\ \* the cycle has completed: the loop is about to start
           (Top.k = "arrive" /\ Top.at = "cb" /\ stack' # <<>>
               /\ stack'[Len(stack')].k = "arrive"
               /\ stack'[Len(stack')].at = "loop") =>
              /\ cbar'[Top.bar].arrived = 0
              /\ cbar'[Top.bar].waiters = <<>>
              /\ stack'[Len(stack')].ws = cbar[Top.bar].waiters
              /\ Len(cbar[Top.bar].waiters) = NP
        /\ \* the loop resumes a party
           (Top.k = "arrive" /\ Top.at = "loop" /\ Len(stack') = Len(stack) + 1) =>
              LET b  == Top.bar
                  ws == Top.ws
                  h  == stack'[Len(stack')].id
                  c  == hist.completes[b]
              IN  /\ Top.i \in 1..Len(ws) /\ ws[Top.i] = h
                  /\ pc[h] = At(b)
                  /\ \A j \in 1..Len(ws) :
                        hist.passed[b][ws[j]] = IF j < Top.i THEN c ELSE c - 1
        /\ \* a party arrives at a barrier whose loop is running
           \A b \in Barriers :
              (hist'.arrivals[b] = hist.arrivals[b] + 1 /\ LoopsOf(b) # {}) =>
                 LET i == Top.id
                 IN  /\ \A k \in LoopsOf(b) :
                           /\ stack'[k] = stack[k]
                           /\ \A j \in stack[k].i..Len(stack[k].ws) : stack[k].ws[j] # i
                     /\ cbar'[b].waiters = Append(cbar[b].waiters, i)
                     /\ cbar'[b].arrived = Len(cbar'[b].waiters) % NP]_vars

\* a party is queued for the next cycle of a barrier while the loop of the
\* cycle before is still on the stack, and that loop has resumed its parties
C25_Witness ==
    \E b \in Barriers :
       /\ cbar[b].waiters # <<>>
       /\ \E k \in LoopsOf(b) : stack[k].i > Len(stack[k].ws)
       /\ \A i \in Ids : hist.passed[b][i] = hist.completes[b]

C22_EngineDayVotes ==
    [][\A l \in NewLines :
          l[1] = "DAY: vote" => l[3] # l[2] /\ l[3] \in Ids /\ alive[l[3]]]_vars

(***************************************************************************)
(* SpecLive: the round loop of an engine without its counters.  No decision *)
(* of an agent or of the Moderator reads the round number, the statistics  *)
(* or the journal, so every round starts from a Moderator without them and *)
(* a match that never ends is a cycle.  The agents run in id order, the     *)
(* order in which the cooperative engine first resumes them.               *)
(***************************************************************************)
InitLive ==
    /\ InitCommon("rounds", TiePolicies, MaxDraw)
    /\ pc    = <<>>
    /\ cbar  = <<>>
    /\ stack = <<>>
    /\ drv   = [pc |-> "round", i |-> 0, progressed |-> FALSE]
    /\ sbar  = <<>>
    /\ mpc   = "none"

LiveUnchanged == UNCHANGED <<cfg, role, stop, pc, cbar, stack, sbar, mpc, hist, hpc, fs>>

\* top of the loop: set_phase(Day), clear_day_votes()
LiveDayStart ==
    /\ cfg.backend = "rounds" /\ drv.pc = "round" /\ ~gs.game_over
    /\ mod' = clear_day_votes(ModInit, alive)
    /\ gs' = [gs EXCEPT !.phase = "Day"]
    /\ drv' = [drv EXCEPT !.pc = "day", !.i = 0]
    /\ UNCHANGED <<alive, priv>>
    /\ LiveUnchanged

\* the day body of the next agent
LiveDayHook ==
    /\ cfg.backend = "rounds" /\ drv.pc = "day" /\ drv.i < NP
    /\ IF alive[drv.i]
       THEN \E r \in DayHook(mod, alive, priv[drv.i], drv.i) :
               mod' = r.mod /\ priv' = [priv EXCEPT ![drv.i] = r.priv]
       ELSE UNCHANGED <<mod, priv>>
    /\ drv' = [drv EXCEPT !.i = @ + 1]
    /\ UNCHANGED <<alive, gs>>
    /\ LiveUnchanged

\* resolve_day_lynch(); if (check_end_conditions_()) break; set_phase(Night)
LiveDayEnd ==
    /\ cfg.backend = "rounds" /\ drv.pc = "day" /\ drv.i = NP
    /\ \E r \in resolve_day_lynch(mod, alive, cfg.tie_policy) :
          LET e == check_end_conditions_(r.mod, r.alive, FsInit, gs)
          IN  /\ alive' = r.alive
              /\ mod' = e.mod
              /\ gs' = IF e.over THEN e.gs ELSE [gs EXCEPT !.phase = "Night"]
              /\ drv' = [drv EXCEPT !.pc = IF e.over THEN "over" ELSE "night", !.i = 0]
    /\ UNCHANGED priv
    /\ LiveUnchanged

\* the night body of the next agent
LiveNightHook ==
    /\ cfg.backend = "rounds" /\ drv.pc = "night" /\ drv.i < NP
    /\ IF alive[drv.i]
       THEN \E r \in on_night(mod, alive, priv[drv.i], drv.i) :
               mod' = r.mod /\ priv' = [priv EXCEPT ![drv.i] = r.priv]
       ELSE UNCHANGED <<mod, priv>>
    /\ drv' = [drv EXCEPT !.i = @ + 1]
    /\ UNCHANGED <<alive, gs>>
    /\ LiveUnchanged

\* resolve_night(); if (check_end_conditions_()) break; next_round()
LiveNightEnd ==
    /\ cfg.backend = "rounds" /\ drv.pc = "night" /\ drv.i = NP
    /\ \E r \in resolve_night(mod, alive, FsInit) :
          LET e == check_end_conditions_(r.mod, r.alive, FsInit, gs)
          IN  /\ alive' = r.alive
              /\ mod' = e.mod
              /\ gs' = IF e.over THEN e.gs ELSE gs
              /\ drv' = [drv EXCEPT !.pc = IF e.over THEN "over" ELSE "round", !.i = 0]
    /\ UNCHANGED priv
    /\ LiveUnchanged

NextLive ==
    \/ LiveDayStart
    \/ LiveDayHook
    \/ LiveDayEnd
    \/ LiveNightHook
    \/ LiveNightEnd

\* the engine keeps running: some step of the loop is taken whenever one is possible
SpecLive == InitLive /\ [][NextLive]_vars /\ WF_vars(NextLive)

\* C5: under the tie policy Random every match reaches game_over, whatever
\* the agents and the moderator RNG choose: every day ends with exactly one
\* lynch, so the alive population shrinks every round.
C5_EndsUnderRandomTie ==
    (cfg.tie_policy = "Random") => <>(gs.game_over /\ evaluate_winner(alive) # "None")

\* a match under the policy Random has ended after a day whose tie was
\* broken by the moderator RNG
C5_Witness ==
    /\ cfg.backend = "rounds"
    /\ cfg.tie_policy = "Random"
    /\ gs.game_over
    /\ evaluate_winner(alive) # "None"
    /\ \E k \in 1..Len(mod.round_log) :
          mod.round_log[k] = <<"DAY: tie -> victim chosen randomly">>

\* C5 as stated: every match eventually reaches game_over, for any choices
\* of the agents and the moderator RNG.
C5_EveryMatchEnds ==
    <>(gs.game_over /\ evaluate_winner(alive) # "None")

(***************************************************************************)
(* Properties of the Day (SpecDay)                                         *)
(***************************************************************************)
\* What the journal says each player's last accepted ballot of the Day was
\* (NoId when it cast none), the valid final ballots per target among the
\* players alive when the count began, and the players holding the maximum.
BallotOf(v) ==
    LET log  == mod.round_log
        mine == {k \in 1..Len(log) : log[k][1] = "DAY: vote" /\ log[k][2] = v}
    IN  IF mine = {} THEN NoId ELSE log[MaxOf(mine)][3]

DayCounts ==
    LET valid == {v \in Ids : hist.before[v] /\ BallotOf(v) # NoId}
        cast  == {<<v, BallotOf(v)>> : v \in valid}
    IN  [t \in Ids |-> Cardinality({b \in cast : b[2] = t /\ hist.before[t]})]

TiedLeaders ==
    LET counts == DayCounts
        mx     == MaxOf({counts[t] : t \in Ids})
    IN  IF mx = 0 THEN {} ELSE {t \in Ids : counts[t] = mx}

\* journal lines left by the consultation of an Executioner
AskedLines ==
    {k \in 1..Len(mod.round_log) :
        mod.round_log[k][1] \in {"DAY: executioner abstains",
                                 "DAY: executioner invalid choice",
                                 "DAY: executioner chooses"}}

\* C12: resolve_day_lynch counts exactly the final ballots of the voters alive
\* at the count for targets alive at the count; with no such ballot nobody dies
\* and it returns None; with a single player at the maximum exactly that
\* player is killed and returned and no other alive flag changes.
C12_LynchOfUniqueLeader ==
    hpc = "resolved" =>
       LET leaders == TiedLeaders
       IN  /\ mod.stats_votes_received_day = DayCounts
           /\ leaders = {} => (hist.victim = NoId /\ alive = hist.before)
           /\ Cardinality(leaders) = 1 =>
                 /\ leaders = {hist.victim}
                 /\ alive = [hist.before EXCEPT ![hist.victim] = FALSE]

\* a single leader was lynched although player 0 changed its ballot and a
\* player that had voted for somebody else was dead at the count
C12_Witness ==
    /\ hpc = "resolved"
    /\ Cardinality(TiedLeaders) = 1
    /\ hist.victim \in TiedLeaders
    /\ ~alive[hist.victim]
    /\ \E k \in 1..Len(mod.round_log) :
          /\ mod.round_log[k][1] = "DAY: vote"
          /\ mod.round_log[k][2] = 0
          /\ mod.round_log[k][3] # BallotOf(0)
    /\ \E v \in Ids : ~hist.before[v] /\ BallotOf(v) \notin {NoId, hist.victim}

\* C13: tie policy None and no Executioner alive: when two or more players
\* hold the maximum count nobody is killed, None is returned and every tied
\* leader is alive after the Day.
C13_TieWithoutExecutioner ==
    ( /\ hpc = "resolved"
      /\ cfg.tie_policy = "None"
      /\ ~\E i \in Ids : hist.before[i] /\ role[i] = "Executioner"
      /\ Cardinality(TiedLeaders) >= 2 ) =>
       /\ hist.victim = NoId
       /\ alive = hist.before
       /\ \A l \in TiedLeaders : alive[l]

\* three players tied under policy None after the Executioner had been killed
C13_Witness ==
    /\ hpc = "resolved"
    /\ cfg.tie_policy = "None"
    /\ \E i \in Ids : role[i] = "Executioner" /\ ~hist.before[i]
    /\ Cardinality(TiedLeaders) = 3
    /\ hist.victim = NoId

\* C14: tie policy Random: when two or more players hold the maximum count
\* exactly one player is killed, it is one of the tied leaders and every other
\* player keeps its alive flag.
C14_RandomTieKillsOneLeader ==
    ( /\ hpc = "resolved"
      /\ cfg.tie_policy = "Random"
      /\ Cardinality(TiedLeaders) >= 2 ) =>
       /\ hist.victim \in TiedLeaders
       /\ alive = [hist.before EXCEPT ![hist.victim] = FALSE]
       /\ Cardinality({i \in Ids : hist.before[i] /\ ~alive[i]}) = 1

\* a tie under Random in which the draw took a leader other than the lowest id
C14_Witness ==
    /\ hpc = "resolved"
    /\ cfg.tie_policy = "Random"
    /\ Cardinality(TiedLeaders) >= 2
    /\ hist.victim \in TiedLeaders
    /\ \E l \in TiedLeaders : l < hist.victim
    /\ ~alive[hist.victim]

VotesOf(v) ==
    LET log == mod.round_log
    IN  {k \in 1..Len(log) : log[k][1] = "DAY: vote" /\ log[k][2] = v}

\* C27: the last vote of a voter wins - day_votes[v] is the target of the last
\* accepted call of v (unset when v made none), only that vote enters the
\* count, and the votes-given statistic of v grows by exactly 1 in a Day in
\* which v voted, however often.
C27_LastVoteWins ==
    hpc # "start" =>
       /\ \A v \in Ids :
             /\ mod.day_votes[v] = BallotOf(v)
             /\ mod.day_voted_flag[v] = (VotesOf(v) # {})
             /\ mod.stats_votes_given_day[v] = IF VotesOf(v) # {} THEN 1 ELSE 0
       /\ hpc = "resolved" => mod.stats_votes_received_day = DayCounts

\* player 0 voted twice for different players, and its first choice got no
\* vote in the count
C27_Witness ==
    /\ hpc = "resolved"
    /\ Cardinality(VotesOf(0)) = 2
    /\ \E k \in VotesOf(0) :
          /\ mod.round_log[k][3] # BallotOf(0)
          /\ mod.stats_votes_received_day[mod.round_log[k][3]] = 0
    /\ mod.stats_votes_received_day[BallotOf(0)] > 0

(***************************************************************************)
(* Properties of the tie with an interactive player (SpecHuman)            *)
(***************************************************************************)
\* C32: on a day tie under tie policy None an alive player of role Executioner
\* is consulted through decide_execution, be it an AI agent or the Human
\* agent: the journal holds the line of its answer, and a leader it chose is
\* the player lynched.
C32_ExecutionerConsulted ==
    (hpc = "resolved" /\ Cardinality(TiedLeaders) > 1 /\ hist.before[ExecutionerId]) =>
       /\ AskedLines # {}
       /\ \A k \in AskedLines :
             mod.round_log[k][1] = "DAY: executioner chooses" =>
                /\ mod.round_log[k][2] \in
                      Human_decide_execution(hist.before, ExecutionerId, TiedLeaders)
                /\ hist.victim = mod.round_log[k][2]

(***************************************************************************)
(* Properties of the Night (SpecNight)                                     *)
(***************************************************************************)
\* the mafia target the journal names as marked (empty when there is none)
MafiaPick ==
    {mod.round_log[k][2] :
        k \in {j \in 1..Len(mod.round_log) : mod.round_log[j][1] = "NIGHT: marked-by-mafia"}}

\* the players that were alive when resolve_night began and are dead after it
NightDead == {i \in Ids : hist.before[i] /\ ~alive[i]}

\* C16: heal exclusion - when doctor_heal names a player h alive at the
\* resolution, h is not in the returned death list and is alive afterwards,
\* whoever else marked h.
C16_HealedSurvives ==
    (hpc = "resolved" /\ hist.heal # NoId /\ hist.before[hist.heal]) =>
       /\ alive[hist.heal]
       /\ \A k \in 1..Len(hist.deaths) : hist.deaths[k] # hist.heal

\* the healed player was the mafia pick, the detective's shot and the
\* maniac's target at once, and lives
C16_Witness ==
    /\ hpc = "resolved"
    /\ hist.heal # NoId
    /\ MafiaPick = {hist.heal}
    /\ hist.shot = hist.heal
    /\ hist.maniac = hist.heal
    /\ alive[hist.heal]

\* C17: resolve_night kills exactly the selected mafia target, the detective's
\* shot and the maniac's target, as far as they are alive, minus the healed
\* player; nobody else dies, no dead player comes back, the selected mafia
\* target holds the maximal tally, and the returned list holds exactly the
\* dead in ascending id order.
C17_NightKillsExactlyTheMarked ==
    hpc = "resolved" =>
       LET pick   == MafiaPick
           marks  == pick \cup ({hist.shot, hist.maniac} \ {NoId})
           expect == {i \in marks : hist.before[i]} \ {hist.heal}
           deaths == hist.deaths
       IN  /\ NightDead = expect
           /\ \A i \in Ids : ~hist.before[i] => ~alive[i]
           /\ \A t \in pick : \A i \in Ids : hist.counts[i] <= hist.counts[t]
           /\ Cardinality(pick) <= 1
           /\ {deaths[k] : k \in 1..Len(deaths)} = expect
           /\ \A k \in 1..Len(deaths), l \in 1..Len(deaths) : k < l => deaths[k] < deaths[l]

\* three different players marked by the mafia, the detective and the maniac
\* died in one night while the doctor healed a fourth and a fifth was dead
C17_Witness ==
    /\ hpc = "resolved"
    /\ Len(hist.deaths) = 3
    /\ MafiaPick # {}
    /\ hist.heal # NoId
    /\ \E i \in Ids : ~hist.before[i]
    /\ \E a \in Ids, b \in Ids : hist.counts[a] = 1 /\ hist.counts[b] = 1 /\ a # b

\* the journal lines of kind k
LinesOf(k) ==
    LET log == mod.round_log
    IN  {log[j] : j \in {i \in 1..Len(log) : log[i][1] = k}}

\* the outcomes of resolve_night on Moderator m: deaths and alive flags
NightOutcomes(m) == {<<r.deaths, r.alive>> : r \in resolve_night(m, alive, fs)}

\* C28: the mafia target - with M > 0 the maximum of the tally, the player
\* marked by the mafia is alive and holds M votes, and one is marked whenever
\* an alive player holds M; without an accepted mafia vote nobody is marked by
\* the mafia.  The tally is the number of accepted votes per target and the
\* outcome is the same whichever of two mafia votes is submitted first.
C28_MafiaTarget ==
    /\ hpc = "resolved" =>
          LET votes == LinesOf("NIGHT: mafia-vote")
              M     == MaxOf({hist.counts[i] : i \in Ids})
              cands == {i \in Ids : hist.before[i] /\ hist.counts[i] = M /\ M > 0}
              pick  == MafiaPick
          IN  /\ \A t \in Ids : hist.counts[t] = Cardinality({l \in votes : l[3] = t})
              /\ pick \subseteq cands
              /\ Cardinality(pick) <= 1
              /\ cands # {} => pick # {}
              /\ votes = {} => pick = {}
    /\ (hpc = "night" /\ hist.next = NP /\ LinesOf("NIGHT: mafia-vote") = {}) =>
          \A x \in Ids, y \in Ids :
             LET xy == mafia_vote_target(mafia_vote_target(mod, alive, 0, x), alive, 1, y)
                 yx == mafia_vote_target(mafia_vote_target(mod, alive, 1, y), alive, 0, x)
             IN  /\ xy.mafia_vote_counts = yx.mafia_vote_counts
                 /\ NightOutcomes(xy) = NightOutcomes(yx)

\* both mafia voted for the same player, who was marked and died
C28_Witness ==
    /\ hpc = "resolved"
    /\ \E t \in MafiaPick : hist.counts[t] = 2 /\ ~alive[t]

(***************************************************************************)
(* Properties of the listeners (SpecListen)                                *)
(***************************************************************************)
\* what the journal of the submissions says was done to player t this night
HeardOf(t) ==
    LET votes == Cardinality({l \in LinesOf("NIGHT: mafia-vote") : l[3] = t})
    IN  (IF votes > 0 THEN {<<"mafia", votes>>} ELSE {})
        \cup (IF <<"NIGHT: detective-shot", t>> \in LinesOf("NIGHT: detective-shot")
              THEN {<<"det-shot">>} ELSE {})
        \cup (IF <<"NIGHT: doctor-heal", t>> \in LinesOf("NIGHT: doctor-heal")
              THEN {<<"doc-heal">>} ELSE {})
        \cup (IF <<"NIGHT: maniac-target", t>> \in LinesOf("NIGHT: maniac-target")
              THEN {<<"maniac">>} ELSE {})

\* C23: eavesdropper completeness - every accepted request of e on t gets one
\* result, which lists each kind of action that named t that night exactly
\* once (the mafia with its number of votes, det-shot, doc-heal, maniac) and
\* nothing else, and which is `none' exactly when no action named t.
C23_EavesdropperHearsAll ==
    hpc = "resolved" =>
       LET asked   == LinesOf("NIGHT: eavesdropper-target")
           results == LinesOf("NIGHT: eavesdropper-result")
       IN  /\ \A q \in asked : \E r \in results : r[3] = q[2] /\ r[2] = q[3]
           /\ \A r \in results :
                 LET items == r[4]
                     heard == HeardOf(r[2])
                 IN  /\ <<"NIGHT: eavesdropper-target", r[3], r[2]>> \in asked
                     /\ \A k \in 1..Len(items), l \in 1..Len(items) :
                           items[k] = items[l] => k = l
                     /\ {items[k] : k \in 1..Len(items)} =
                           (IF heard = {} THEN {<<"none">>} ELSE heard)

\* the eavesdropper asked about a player that the mafia, the detective, the
\* doctor and the maniac all named, the last three after the request
C23_Witness ==
    /\ hpc = "resolved"
    /\ \E r \in LinesOf("NIGHT: eavesdropper-result") : Len(r[4]) = 4

\* the Moderator without the requests of the listeners
WithoutListeners(m) ==
    [m EXCEPT !.journalist_queries = <<>>, !.eavesdrop_requests = <<>>]

\* C24: the requests of the Journalist and the Eavesdropper only inform - an
\* accepted request changes nothing but the list it is queued in and the
\* journal, resolve_night returns the same deaths and leaves the same players
\* alive as without the requests, and each journalist result is SAME exactly
\* when the two players are of the same team.
C24_ListenersOnlyInform ==
    [][/\ (hpc = "night" /\ hist'.next = hist.next + 1
            /\ role[hist.next] \in {"Journalist", "Eavesdropper"}) =>
             /\ alive' = alive
             /\ [mod' EXCEPT !.journalist_queries = <<>>, !.eavesdrop_requests = <<>>,
                             !.round_log = <<>>]
                   = [mod EXCEPT !.journalist_queries = <<>>, !.eavesdrop_requests = <<>>,
                                 !.round_log = <<>>]
       /\ (hpc = "night" /\ hpc' = "resolved") =>
             /\ <<alive', hist'.deaths>> \in
                   {<<r.alive, r.deaths>> :
                       r \in resolve_night(WithoutListeners(mod), alive, fs)}
             /\ {<<r.alive, r.deaths>> : r \in resolve_night(mod, alive, fs)}
                   = {<<r.alive, r.deaths>> :
                         r \in resolve_night(WithoutListeners(mod), alive, fs)}
             /\ LET asked   == {l \in {mod.round_log[j] : j \in 1..Len(mod.round_log)} :
                                   l[1] = "NIGHT: journalist-compare"}
                    results == {l \in {mod'.round_log[j] : j \in 1..Len(mod'.round_log)} :
                                   l[1] = "NIGHT: journalist-result"}
                IN  /\ \A q \in asked : \E r \in results :
                          r[2] = q[2] /\ r[3] = q[3] /\ r[4] = q[4]
                    /\ \A r \in results :
                          /\ <<"NIGHT: journalist-compare", r[2], r[3], r[4]>> \in asked
                          /\ r[5] \in {"SAME", "DIFFERENT"}
                          /\ r[5] = "SAME" <=>
                                team_of(role[r[3]]) = team_of(role[r[4]])]_vars

\* a night with an accepted eavesdropper request and a journalist that learned
\* that the Detective and the Doctor are of the same team, in which somebody
\* died
C24_Witness ==
    /\ hpc = "resolved"
    /\ hist.deaths # <<>>
    /\ LinesOf("NIGHT: eavesdropper-result") # {}
    /\ \E r \in LinesOf("NIGHT: journalist-result") :
          r[5] = "SAME" /\ role[r[3]] # role[r[4]]

(***************************************************************************)
(* Properties of the Moderator (SpecMod)                                   *)
(***************************************************************************)
\* C4: monotone mortality - whatever submissions, kills and resolutions are
\* made, a player that is dead stays dead: alive[id] only goes true -> false.
C4_MonotoneMortality ==
    [][\A i \in DOMAIN alive : ~alive[i] => ~alive'[i]]_vars

\* a player died in round 1 and the calls went on into round 2
C4_Witness ==
    /\ mod.round_index = 2
    /\ \E i \in DOMAIN alive : ~alive[i] /\ mod.stats_died_round[i] = 1

\* C9: a submission (any of the seven) whose submitter or target id is out of
\* range or dead leaves the whole Moderator - day and night buffers, journal,
\* statistics - as it was.
C9_BadIdsDiscarded ==
    [][(hist'.calls > hist.calls /\ hist'.last = "bad") => mod' = mod]_vars

\* a submission naming a bad id was made while a player was dead and the
\* journal and the day buffer held entries
C9_Witness ==
    /\ hist.last = "bad"
    /\ \E i \in DOMAIN alive : ~alive[i]
    /\ Len(mod.round_log) > 1
    /\ \E v \in DOMAIN mod.day_votes : mod.day_votes[v] # NoId

\* C11: mafia_vote_target changes the mafia tally only when the voter is an
\* alive member of team Mafia and set_maniac_target changes maniac_target only
\* when the submitter is the alive Maniac; such a call made by an alive player
\* of another team leaves the whole Moderator (night buffers, statistics,
\* journal) unchanged.
C11_RoleCheckedSubmissions ==
    [][hist'.calls > hist.calls =>
          /\ hist'.last = "wrong_role" => mod' = mod
          /\ mod'.mafia_vote_counts # mod.mafia_vote_counts =>
                 hist'.last \in {"mafia_ok", "self"}
          /\ mod'.maniac_target # mod.maniac_target =>
                 hist'.last \in {"maniac_ok", "self"}
          /\ (mod'.stats_mafia_votes # mod.stats_mafia_votes
               \/ mod'.stats_maniac_targets # mod.stats_maniac_targets) =>
                 hist'.last \in {"mafia_ok", "maniac_ok", "self"} ]_vars

\* a role-checked call by a player of the wrong team was made at night while
\* the mafia tally and the maniac target already held a choice
C11_Witness ==
    /\ hist.last = "wrong_role"
    /\ hist.calls = 2
    /\ hpc = "night"
    /\ (mod.maniac_target # NoId \/ \E t \in DOMAIN mod.mafia_vote_counts : mod.mafia_vote_counts[t] > 0)

\* C10: a submission with valid ids whose target is the submitter (or a
\* journalist query naming the journalist or one id twice) changes nothing,
\* except the doctor's heal of itself, which is recorded.
C10_SelfTargetDropped ==
    [][ /\ (hist'.calls > hist.calls /\ hist'.last = "self") => mod' = mod
        /\ (hist'.calls > hist.calls /\ hist'.last = "heal_self") =>
               (mod'.doctor_heal # NoId /\ mod'.round_log # mod.round_log) ]_vars

(***************************************************************************)
(* SpecCensus: construction of the players from a configuration, by the   *)
(* cooperative engine (init_players_) and the threaded one                 *)
(* (setup_players_)                                                        *)
(***************************************************************************)
\* configurations: player counts, divisors and extra-role counts up to these
MaxPlayers == 10
MaxDivisor == 5
MaxExtra   == 2

Min2(a, b) == IF a <= b THEN a ELSE b

\* bag.insert(bag.end(), n, r)
bag_insert(bag, n, r) == bag \o [i \in 1..n |-> r]

\* the mafia count with the divisor taken as it is (at least 1)
mafia_cnt_unclamped(total, k) == Max2(1, total \div Max2(1, k))

\* max(1, total / max(3, k_mafia_divisor))
mafia_cnt(total, k) == Max2(1, total \div Max2(3, k))

\* GameEngineCoro::init_players_: the role bag before the shuffle, or the throw
init_players_(c) ==
    LET total            == c.n_players
        mafia            == mafia_cnt(total, c.k_mafia_divisor)
        executioner_cnt  == Min2(c.executioner_count, 1)
        journalist_cnt   == Min2(c.journalist_count, 1)
        eavesdropper_cnt == Min2(c.eavesdropper_count, 1)
        fixed == mafia + 1 + 1 + 1 + executioner_cnt + journalist_cnt + eavesdropper_cnt
        b1 == bag_insert(<<>>, mafia, "Mafia")
        b2 == bag_insert(b1, 1, "Detective")
        b3 == bag_insert(b2, 1, "Doctor")
        b4 == bag_insert(b3, 1, "Maniac")
        b5 == bag_insert(b4, executioner_cnt, "Executioner")
        b6 == bag_insert(b5, journalist_cnt, "Journalist")
        b7 == bag_insert(b6, eavesdropper_cnt, "Eavesdropper")
    IN  IF fixed > total THEN [thrown |-> TRUE, bag |-> <<>>]
        ELSE [thrown |-> FALSE, bag |-> bag_insert(b7, total - fixed, "Citizen")]

\* GameEngine::setup_players_: the same computation in the threaded engine
setup_players_(c) ==
    LET total            == c.n_players
        mafia            == mafia_cnt(total, c.k_mafia_divisor)
        executioner_cnt  == Min2(c.executioner_count, 1)
        journalist_cnt   == Min2(c.journalist_count, 1)
        eavesdropper_cnt == Min2(c.eavesdropper_count, 1)
        fixed == mafia + 1 + 1 + 1 + executioner_cnt + journalist_cnt + eavesdropper_cnt
        b1 == bag_insert(<<>>, mafia, "Mafia")
        b2 == bag_insert(b1, 1, "Detective")
        b3 == bag_insert(b2, 1, "Doctor")
        b4 == bag_insert(b3, 1, "Maniac")
        b5 == bag_insert(b4, executioner_cnt, "Executioner")
        b6 == bag_insert(b5, journalist_cnt, "Journalist")
        b7 == bag_insert(b6, eavesdropper_cnt, "Eavesdropper")
    IN  IF fixed > total THEN [thrown |-> TRUE, bag |-> <<>>]
        ELSE [thrown |-> FALSE, bag |-> bag_insert(b7, total - fixed, "Citizen")]

\* Rng::shuffle: some permutation of the bag; the rotations stand for them
shuffle(bag) ==
    LET n == Len(bag)
    IN  IF n = 0 THEN {bag}
        ELSE {[i \in 1..n |-> bag[((i - 1 + s) % n) + 1]] : s \in 0..(n - 1)}

InitCensus ==
    /\ cfg   \in [n_players          : 0..MaxPlayers,
                  k_mafia_divisor    : 0..MaxDivisor,
                  executioner_count  : 0..MaxExtra,
                  journalist_count   : 0..MaxExtra,
                  eavesdropper_count : 0..MaxExtra,
                  backend            : {"coro", "mt"},
                  tie_policy         : {"None"},
                  draws              : {MaxDraw}]
    /\ role  = <<>>
    /\ alive = <<>>
    /\ gs    = GsInit
    /\ mod   = ModInit
    /\ fs    = FsInit
    /\ priv  = <<>>
    /\ stop  = FALSE
    /\ pc    = <<>>
    /\ cbar  = <<>>
    /\ stack = <<>>
    /\ drv   = <<>>
    /\ sbar  = <<>>
    /\ mpc   = "none"
    /\ hist  = <<>>
    /\ hpc   = "config"

\* the players are created from the shuffled bag, all alive; a throw leaves
\* the player list empty
Constructed(r) ==
    /\ hpc = "config"
    /\ IF r.thrown
       THEN /\ hpc' = "thrown"
            /\ UNCHANGED <<role, alive>>
       ELSE /\ hpc' = "built"
            /\ \E bag \in shuffle(r.bag) :
                  /\ role' = CastOf(bag)
                  /\ alive' = [i \in 0..(Len(bag) - 1) |-> TRUE]
    /\ UNCHANGED <<cfg, gs, mod, fs, priv, stop, pc, cbar, stack, drv, sbar, mpc, hist>>

CInitPlayers ==
    /\ cfg.backend = "coro"
    /\ Constructed(init_players_(cfg))

CSetupPlayers ==
    /\ cfg.backend = "mt"
    /\ Constructed(setup_players_(cfg))

NextCensus ==
    \/ CInitPlayers
    \/ CSetupPlayers

SpecCensus == InitCensus /\ [][NextCensus]_vars

\* the number of players of role r
CensusOf(r) == Cardinality({i \in DOMAIN role : role[i] = r})

\* C20: role census - construction fails exactly when the mafia count, the
\* three mandatory roles and the enabled extra roles exceed N; otherwise it
\* yields exactly N players, ids 0..N-1, all alive, with
\* max(1, N div max(3, k_div)) Mafia, one Detective, one Doctor, one Maniac,
\* one Executioner / Journalist / Eavesdropper each when its count is not 0
\* and none otherwise, and Citizens for the rest; the two engines compute the
\* same bag for the same configuration.
C20_RoleCensus ==
    LET n      == cfg.n_players
        kdiv   == IF cfg.k_mafia_divisor > 3 THEN cfg.k_mafia_divisor ELSE 3
        mafia  == IF n \div kdiv >= 1 THEN n \div kdiv ELSE 1
        ex     == IF cfg.executioner_count = 0 THEN 0 ELSE 1
        jo     == IF cfg.journalist_count = 0 THEN 0 ELSE 1
        ea     == IF cfg.eavesdropper_count = 0 THEN 0 ELSE 1
        needed == mafia + 3 + ex + jo + ea
    IN  /\ hpc = "thrown" => (needed > n /\ role = <<>>)
        /\ hpc = "built" =>
              /\ needed <= n
              /\ DOMAIN role = 0..(n - 1)
              /\ \A i \in DOMAIN role : alive[i]
              /\ CensusOf("Mafia") = mafia
              /\ CensusOf("Detective") = 1
              /\ CensusOf("Doctor") = 1
              /\ CensusOf("Maniac") = 1
              /\ CensusOf("Executioner") = ex
              /\ CensusOf("Journalist") = jo
              /\ CensusOf("Eavesdropper") = ea
              /\ CensusOf("Citizen") = n - needed
        /\ hpc \in {"thrown", "built"} => init_players_(cfg) = setup_players_(cfg)

\* ten players built by the threaded engine with divisor 5: two Mafia, the
\* three extra roles and two Citizens
C20_Witness ==
    /\ hpc = "built"
    /\ cfg.backend = "mt"
    /\ cfg.n_players = 10
    /\ cfg.k_mafia_divisor = 5
    /\ CensusOf("Mafia") = 2
    /\ CensusOf("Executioner") = 1
    /\ CensusOf("Citizen") = 2
    /\ role[0] # "Mafia"

(***************************************************************************)
(* SpecWinner: evaluate_winner applied to every cast and alive set         *)
(***************************************************************************)
InitWinner ==
    /\ cfg   = [tie_policy |-> "None", backend |-> "none", draws |-> MaxDraw]
    /\ role  \in [0..(MaxCast - 1) -> {"Mafia", "Maniac", "Citizen"}]
    /\ alive \in [0..(MaxCast - 1) -> BOOLEAN]
    /\ gs    = GsInit
    /\ mod   = ModInit
    /\ fs    = FsInit
    /\ priv  = <<>>
    /\ stop  = FALSE
    /\ pc    = <<>>
    /\ cbar  = <<>>
    /\ stack = <<>>
    /\ drv   = <<>>
    /\ sbar  = <<>>
    /\ mpc   = "none"
    /\ hist  = [calls |-> 0, last |-> "none"]
    /\ hpc   = "start"

WEvaluateWinner ==
    /\ hist.calls = 0
    /\ hist' = [calls |-> 1, last |-> evaluate_winner(alive)]
    /\ UNCHANGED <<alive, mod, fs, hpc>>
    /\ EngineUnchanged

NextWinner == WEvaluateWinner

SpecWinner == InitWinner /\ [][NextWinner]_vars

\* C7: over the counts of alive Mafia, Maniac and Town players the result is
\* Town when no Mafia and no Maniac is alive; Maniac when no Mafia, exactly
\* one Maniac and exactly one Town are alive; Mafia when at least one Mafia is
\* alive and they are at least as many as Town plus Maniac; None otherwise.
C7_WinnerPriority ==
    LET maf  == Cardinality({i \in DOMAIN role : alive[i] /\ role[i] = "Mafia"})
        man  == Cardinality({i \in DOMAIN role : alive[i] /\ role[i] = "Maniac"})
        town == Cardinality({i \in DOMAIN role : alive[i] /\ role[i] \notin {"Mafia", "Maniac"}})
    IN  hist.calls > 0 =>
          /\ (maf = 0 /\ man = 0) => hist.last = "Town"
          /\ (maf = 0 /\ man = 1 /\ town = 1) => hist.last = "Maniac"
          /\ (maf > 0 /\ maf >= town + man) => hist.last = "Mafia"
          /\ (~(maf = 0 /\ man = 0) /\ ~(maf = 0 /\ man = 1 /\ town = 1)
                 /\ ~(maf > 0 /\ maf >= town + man)) => hist.last = "None"

\* evaluated at exact parity, with the Maniac counted against the Mafia
C7_Witness ==
    /\ hist.calls > 0
    /\ hist.last = "Mafia"
    /\ Cardinality({i \in DOMAIN role : alive[i] /\ role[i] = "Mafia"}) = 2
    /\ Cardinality({i \in DOMAIN role : alive[i] /\ role[i] = "Maniac"}) = 1
    /\ Cardinality({i \in DOMAIN role : alive[i] /\ role[i] = "Citizen"}) = 1

(***************************************************************************)
(* SpecSeed: the seeding of the random generators.  The engine's generator *)
(* is built from cfg.seed and the loop at the end of init_players_ /       *)
(* setup_players_ builds one generator per player.  cfg.seed and seed_i    *)
(* are `unsigned` (32 bits), written here as a pair <<high half, low       *)
(* half>> of 16-bit numbers; the seed kept by Rng is 64 bits wide, written *)
(* as a pair of 32-bit words.  std::random_device is an input of the       *)
(* environment.                                                            *)
(* hist = [engine : the engine's generator (<<>> before it is built),      *)
(*         players : the generators built by the loop so far].             *)
(***************************************************************************)
MaxSeeded == 4
MaxSmallSeed == 2
MaxDevice == 1

Half == 65536
Zero32 == <<0, 0>>
Zero64 == <<Zero32, Zero32>>

\* 0x9E3779B9u
Golden == <<40503, 31161>>

RECURSIVE Xor16(_, _)
Xor16(a, b) ==
    IF a = 0 THEN b
    ELSE IF b = 0 THEN a
    ELSE ((a + b) % 2) + 2 * Xor16(a \div 2, b \div 2)

\* operator ^ of two unsigned
Xor32(x, y) == <<Xor16(x[1], y[1]), Xor16(x[2], y[2])>>

\* operator * of an unsigned and a small unsigned k, modulo 2^32
Mul32(x, k) ==
    LET low == x[2] * k
    IN  <<(x[1] * k + (low \div Half)) % Half, low % Half>>

\* static_cast<std::uint64_t> of an unsigned
Widen(x) == <<Zero32, x>>

\* the values std::random_device{}() may return
random_device == {<<0, d>> : d \in 0..MaxDevice}

\* Rng::seed_from_device_: high ^ low, the two words side by side
seed_from_device_ ==
    {[seed_snapshot |-> <<high, low>>, device |-> TRUE] :
        high \in random_device, low \in random_device}

\* Rng::Rng(std::uint64_t seed): the generators it may build
Rng_seeded(seed) ==
    IF seed = Zero64
    THEN seed_from_device_
    ELSE {[seed_snapshot |-> seed, device |-> FALSE]}

\* the values of seed_i in iteration i of the loop
seed_i(i) ==
    IF cfg.seed = Zero32
    THEN random_device
    ELSE {Xor32(cfg.seed, Mul32(Golden, i + 1))}

Seeds ==
    {<<0, s>> : s \in 0..MaxSmallSeed}
    \cup {Xor32(Mul32(Golden, k), <<0, s>>) :
             k \in 1..MaxSeeded, s \in 0..MaxSmallSeed}

InitSeed ==
    /\ cfg   \in [seed       : Seeds,
                  n_players  : 1..MaxSeeded,
                  backend    : {"coro", "mt"},
                  tie_policy : {"None"},
                  draws      : {MaxDraw}]
    /\ role  = <<>>
    /\ alive = <<>>
    /\ gs    = GsInit
    /\ mod   = ModInit
    /\ fs    = FsInit
    /\ priv  = <<>>
    /\ stop  = FALSE
    /\ pc    = <<>>
    /\ cbar  = <<>>
    /\ stack = <<>>
    /\ drv   = <<>>
    /\ sbar  = <<>>
    /\ mpc   = "none"
    /\ hist  = [engine |-> <<>>, players |-> <<>>]
    /\ hpc   = "config"

SeedUnchanged ==
    UNCHANGED <<cfg, role, alive, gs, mod, fs, priv, stop, pc, cbar, stack,
                drv, sbar, mpc>>

\* GameEngineCoro::GameEngineCoro: rng_(cfg.seed)
SEngineCoro ==
    /\ hpc = "config"
    /\ cfg.backend = "coro"
    /\ \E r \in Rng_seeded(Widen(cfg.seed)) :
          hist' = [hist EXCEPT !.engine = r]
    /\ hpc' = "loop"
    /\ SeedUnchanged

\* GameEngineMT::GameEngineMT: rng_(cfg.seed == 0 ? Rng() : Rng(cfg.seed))
SEngineMT ==
    /\ hpc = "config"
    /\ cfg.backend = "mt"
    /\ \E r \in (IF cfg.seed = Zero32
                 THEN seed_from_device_
                 ELSE Rng_seeded(Widen(cfg.seed))) :
          hist' = [hist EXCEPT !.engine = r]
    /\ hpc' = "loop"
    /\ SeedUnchanged

\* one iteration of the loop: rng_per_player_.emplace_back(seed_i)
SSeedPlayer ==
    /\ hpc = "loop"
    /\ Len(hist.players) < cfg.n_players
    /\ \E s \in seed_i(Len(hist.players)) :
       \E r \in Rng_seeded(Widen(s)) :
          hist' = [hist EXCEPT !.players = Append(@, r)]
    /\ hpc' = "loop"
    /\ SeedUnchanged

NextSeed ==
    \/ SEngineCoro
    \/ SEngineMT
    \/ SSeedPlayer

SpecSeed == InitSeed /\ [][NextSeed]_vars

\* C29: for a non-zero cfg.seed the generator of every agent i is seeded with
\* cfg.seed XOR (0x9E3779B9 * (i + 1)) in 32-bit unsigned arithmetic, and a
\* generator of an agent is seeded from std::random_device only when
\* cfg.seed is 0.
C29_AgentSeeds ==
    \A k \in 1..Len(hist.players) :
        LET r == hist.players[k]
        IN  /\ cfg.seed # Zero32 =>
                 r.seed_snapshot = Widen(Xor32(cfg.seed, Mul32(Golden, k)))
            /\ r.device => cfg.seed = Zero32

\* the generator built last
LastRng == IF hist.players = <<>> THEN hist.engine
           ELSE hist.players[Len(hist.players)]

\* whatever a generator may be seeded with
RngStates ==
    seed_from_device_
    \cup {[seed_snapshot |-> Widen(w), device |-> FALSE] :
             w \in Seeds \cup {Xor32(cfg.seed, Mul32(Golden, k)) :
                                  k \in 1..MaxSeeded}}

\* C21: with the same non-zero seed and the same configuration two runs go
\* through the same states: no step of the seeding has two outcomes, so the
\* generators that draw the roles, the votes and the targets start equal.
C21_SameSeedSameRun ==
    cfg.seed # Zero32 =>
        \A a \in RngStates : \A b \in RngStates :
            (/\ ENABLED (NextSeed /\ LastRng' = a)
             /\ ENABLED (NextSeed /\ LastRng' = b)) => a = b

(***************************************************************************)
(* SpecDoctor: the Doctor agent over consecutive Nights.  Each Night the   *)
(* Doctor runs on_night, of the main tree or of the tree "Mafia (Task 1)"  *)
(* (cfg.backend); resolve_night then clears the buffers, and players other *)
(* than the Doctor die between the Nights.                                 *)
(* hist = the Nights so far: the target healed (NoId for none) and the     *)
(* alive players other than the target of the Night before.                *)
(***************************************************************************)
MaxNights == 3

DoctorId == CHOOSE i \in DOMAIN Cast5 : Cast5[i] = "Doctor"

InitDoctor ==
    /\ cfg   \in [tie_policy : {"None"}, backend : {"main", "task1"},
                  draws : {MaxDraw}]
    /\ role  = Cast5
    /\ alive = [i \in DOMAIN Cast5 |-> TRUE]
    /\ gs    = GsInit
    /\ mod   = clear_day_votes(ModInit, alive)
    /\ fs    = FsInit
    /\ priv  = [i \in DOMAIN Cast5 |-> PrivInit]
    /\ stop  = FALSE
    /\ pc    = [i \in DOMAIN Cast5 |-> "none"]
    /\ cbar  = <<>>
    /\ stack = <<>>
    /\ drv   = <<>>
    /\ sbar  = <<>>
    /\ mpc   = "none"
    /\ hist  = <<>>
    /\ hpc   = "night"

\* on_night of the Doctor, result r
RHealed(r) ==
    /\ hpc = "night"
    /\ Len(hist) < MaxNights
    /\ mod' = r.mod
    /\ priv' = [priv EXCEPT ![DoctorId] = r.priv]
    /\ hist' = Append(hist,
                  [target |-> r.mod.doctor_heal,
                   left   |-> AliveIds(alive) \
                                 {IF hist = <<>> THEN NoId ELSE hist[Len(hist)].target}])
    /\ hpc' = "acted"
    /\ UNCHANGED <<alive, fs>>
    /\ UNCHANGED <<cfg, role, gs, stop, pc, cbar, stack, drv, sbar, mpc>>

RNightMain ==
    /\ cfg.backend = "main"
    /\ \E r \in Doctor_on_night(mod, alive, priv[DoctorId], DoctorId) : RHealed(r)

RNightTask1 ==
    /\ cfg.backend = "task1"
    /\ \E r \in Doctor_on_night_task1(mod, alive, priv[DoctorId], DoctorId) : RHealed(r)

RResolveNight ==
    /\ hpc = "acted"
    /\ \E r \in resolve_night(mod, alive, fs) :
          /\ mod' = r.mod
          /\ alive' = r.alive
          /\ fs' = r.fs
    /\ hpc' = "night"
    /\ UNCHANGED hist
    /\ EngineUnchanged

\* a player other than the Doctor dies before the next Night
RKillPlayer ==
    /\ hpc = "night"
    /\ hist # <<>>
    /\ \E id \in AliveIds(alive) \ {DoctorId} : alive' = kill_player(alive, id)
    /\ UNCHANGED <<mod, fs, hist, hpc>>
    /\ EngineUnchanged

NextDoctor ==
    \/ RNightMain
    \/ RNightTask1
    \/ RResolveNight
    \/ RKillPlayer

SpecDoctor == InitDoctor /\ [][NextDoctor]_vars

ManiacId == CHOOSE i \in DOMAIN Cast6 : Cast6[i] = "Maniac"

InitManiac ==
    /\ cfg   \in [tie_policy : {"None"}, backend : {"main", "include"},
                  draws : {MaxDraw}]
    /\ role  = Cast6
    /\ alive = [i \in DOMAIN Cast6 |-> TRUE]
    /\ gs    = GsInit
    /\ mod   = clear_day_votes(ModInit, alive)
    /\ fs    = FsInit
    /\ priv  = [i \in DOMAIN Cast6 |-> PrivInit]
    /\ stop  = FALSE
    /\ pc    = [i \in DOMAIN Cast6 |-> "none"]
    /\ cbar  = <<>>
    /\ stack = <<>>
    /\ drv   = <<>>
    /\ sbar  = <<>>
    /\ mpc   = "none"
    /\ hist  = <<>>
    /\ hpc   = "night"

\* a player other than the Maniac has died before the Night
QKillPlayer ==
    /\ hpc = "night"
    /\ \E id \in AliveIds(alive) \ {ManiacId} : alive' = kill_player(alive, id)
    /\ UNCHANGED <<mod, fs, hist, hpc>>
    /\ EngineUnchanged

\* on_night of the Maniac, result r
QSubmitted(r) ==
    /\ hpc = "night"
    /\ mod' = r.mod
    /\ hist' = [target |-> r.mod.maniac_target,
                others |-> AliveIds(alive) \ {ManiacId}]
    /\ hpc' = "acted"
    /\ UNCHANGED <<alive, fs>>
    /\ EngineUnchanged

QNightMain ==
    /\ cfg.backend = "main"
    /\ \E r \in Maniac_on_night(mod, alive, priv[ManiacId], ManiacId) : QSubmitted(r)

QNightInclude ==
    /\ cfg.backend = "include"
    /\ \E r \in Maniac_on_night_skips(mod, alive, priv[ManiacId], ManiacId) :
          QSubmitted(r)

QResolveNight ==
    /\ hpc = "acted"
    /\ \E r \in resolve_night(mod, alive, fs) :
          /\ mod' = r.mod
          /\ alive' = r.alive
          /\ fs' = r.fs
    /\ hpc' = "resolved"
    /\ UNCHANGED hist
    /\ EngineUnchanged

NextManiac ==
    \/ QKillPlayer
    \/ QNightMain
    \/ QNightInclude
    \/ QResolveNight

SpecManiac == InitManiac /\ [][NextManiac]_vars

YamlPlayers == 6
CliPlayers == 5

GameConfigDefault ==
    [n_players |-> 9, tie_policy |-> "None", yaml_path |-> "", use_coroutines |-> FALSE]

\* yaml::load_config_from_yaml: [ok, config, errors]
load_config_from_yaml(path, file, c, errors) ==
    IF ~file.readable
    THEN [ok |-> FALSE, config |-> c, errors |-> Append(errors, "yaml: cannot open file")]
    ELSE LET c1 == IF file.n_players # NoId /\ file.n_players >= 1
                   THEN [c EXCEPT !.n_players = file.n_players] ELSE c
             c2 == IF file.tie = "random" THEN [c1 EXCEPT !.tie_policy = "Random"]
                   ELSE IF file.tie = "none" THEN [c1 EXCEPT !.tie_policy = "None"]
                   ELSE c1
         IN  [ok |-> TRUE, config |-> c2, errors |-> errors]

\* the options --n and --tie of the command line, as both loops read them:
\* [ok, config]
ParseOptions(c) ==
    LET c1 == IF cfg.n # NoId THEN [c EXCEPT !.n_players = cfg.n] ELSE c
        c2 == IF cfg.yaml # "" THEN [c1 EXCEPT !.yaml_path = cfg.yaml] ELSE c1
    IN  IF cfg.tie = "" THEN [ok |-> TRUE, config |-> c2]
        ELSE IF cfg.tie = "none" THEN [ok |-> TRUE, config |-> [c2 EXCEPT !.tie_policy = "None"]]
        ELSE IF cfg.tie = "random" THEN [ok |-> TRUE, config |-> [c2 EXCEPT !.tie_policy = "Random"]]
        ELSE [ok |-> FALSE, config |-> c2]

MainHistInit ==
    [config |-> GameConfigDefault, errors |-> <<>>, load |-> "none",
     engine |-> "none", exit |-> NoId]

InitMain ==
    /\ cfg   \in [backend : {"main", "task1"},
                  yaml    : {"", "game.yaml"},
                  file    : [readable : BOOLEAN, n_players : {NoId, YamlPlayers},
                             tie : {"", "random"}],
                  n       : {NoId, CliPlayers},
                  tie     : {"", "none", "both"},
                  coro    : BOOLEAN]
    /\ role  = <<>>
    /\ alive = <<>>
    /\ gs    = GsInit
    /\ mod   = <<>>
    /\ fs    = FsInit
    /\ priv  = <<>>
    /\ stop  = FALSE
    /\ pc    = <<>>
    /\ cbar  = <<>>
    /\ stack = <<>>
    /\ drv   = <<>>
    /\ sbar  = <<>>
    /\ mpc   = "none"
    /\ hist  = MainHistInit
    /\ hpc   = "start"

MainUnchanged == UNCHANGED <<alive, mod, fs>> /\ EngineUnchanged

\* Task 1: the scan for --yaml and the load whose result is dropped
MPreScan ==
    /\ cfg.backend = "task1" /\ hpc = "start"
    /\ IF cfg.yaml = "" THEN hist' = hist
       ELSE LET c == [hist.config EXCEPT !.yaml_path = cfg.yaml]
                r == load_config_from_yaml(cfg.yaml, cfg.file, c, hist.errors)
            IN  hist' = [hist EXCEPT !.config = r.config, !.errors = r.errors,
                                     !.load = IF r.ok THEN "loaded" ELSE "failed"]
    /\ hpc' = "cli"
    /\ MainUnchanged

\* Task 1: the loop over the options, which override the file's values
MParseCliTask1 ==
    /\ cfg.backend = "task1" /\ hpc = "cli"
    /\ LET r == ParseOptions(hist.config)
       IN  IF ~r.ok
           THEN /\ hist' = [hist EXCEPT !.config = r.config,
                                        !.errors = Append(@, "Invalid --tie"), !.exit = 1]
                /\ hpc' = "exited"
           ELSE /\ hist' = [hist EXCEPT !.config =
                               [r.config EXCEPT !.use_coroutines = cfg.coro]]
                /\ hpc' = "engine"
    /\ MainUnchanged

\* main tree: the loop over the options; --coro is not an option there
MParseCliMain ==
    /\ cfg.backend = "main" /\ hpc = "start"
    /\ LET r == ParseOptions(hist.config)
       IN  IF ~r.ok
           THEN /\ hist' = [hist EXCEPT !.config = r.config,
                                        !.errors = Append(@, "Invalid --tie"), !.exit = 1]
                /\ hpc' = "exited"
           ELSE IF cfg.coro
           THEN /\ hist' = [hist EXCEPT !.config = r.config,
                                        !.errors = Append(@, "Unknown option"), !.exit = 1]
                /\ hpc' = "exited"
           ELSE /\ hist' = [hist EXCEPT !.config = r.config]
                /\ hpc' = "yaml"
    /\ MainUnchanged

\* main tree: the load of the file after the options
MLoadYaml ==
    /\ cfg.backend = "main" /\ hpc = "yaml"
    /\ IF hist.config.yaml_path = ""
       THEN hist' = hist /\ hpc' = "engine"
       ELSE LET r == load_config_from_yaml(hist.config.yaml_path, cfg.file,
                                           hist.config, hist.errors)
            IN  IF r.ok
                THEN /\ hist' = [hist EXCEPT !.config = r.config, !.load = "loaded"]
                     /\ hpc' = "engine"
                ELSE /\ hist' = [hist EXCEPT !.errors = Append(r.errors, "Failed to load YAML config"),
                                             !.load = "failed", !.exit = 1]
                     /\ hpc' = "exited"
    /\ MainUnchanged

\* the engine is constructed and run; an exception ends main with 2 (main
\* tree) or 1 (Task 1)
MRunEngine ==
    /\ hpc = "engine"
    /\ \E thrown \in BOOLEAN :
          hist' = [hist EXCEPT
                     !.engine = IF hist.config.use_coroutines THEN "GameEngineCoro"
                                ELSE "GameEngine",
                     !.errors = IF thrown THEN Append(@, "Fatal") ELSE @,
                     !.exit = IF ~thrown THEN 0
                              ELSE IF cfg.backend = "main" THEN 2 ELSE 1]
    /\ hpc' = "exited"
    /\ MainUnchanged

NextMain ==
    \/ MPreScan
    \/ MParseCliTask1
    \/ MParseCliMain
    \/ MLoadYaml
    \/ MRunEngine

SpecMain == InitMain /\ [][NextMain]_vars

\* C33: a configuration file that cannot be read is a configuration error: it
\* is reported, no engine is constructed or run, and the program exits with a
\* code other than 0.
C33_UnreadableYamlIsFatal ==
    hist.load = "failed" =>
       /\ \E k \in 1..Len(hist.errors) : hist.errors[k] = "yaml: cannot open file"
       /\ hist.engine = "none"
       /\ hpc = "exited" => hist.exit # 0

(***************************************************************************)
(* SpecAnneal: sched::ParallelAnnealerManager::run_parallel.  cfg holds    *)
(* ParallelSAParams; mod holds the manager: the cost of global_best_,      *)
(* last_improvement_iter_, and of the running call outer_iter and          *)
(* improved_this_round; pc[t] is the position of worker t of the wave and  *)
(* priv[t] its local_start and local_best costs; hpc is the position of    *)
(* run_parallel.  A block under global_mutex_ is one step.                 *)
(* hist.before is the cost of global_best_ when the wave started and       *)
(* hist.waves tells of every joined wave whether that cost went down.      *)
(***************************************************************************)
MaxThreads == 2
MaxLimit == 2
MaxCost == 2

Workers == 0..(cfg.n_threads - 1)

InitAnneal ==
    /\ cfg   \in [n_threads : 1..MaxThreads, outer_no_improve_limit : 1..MaxLimit]
    /\ mod   \in [global_best : 0..MaxCost, last_improvement_iter : {0},
                  outer_iter : {0}, improved_this_round : {FALSE}]
    /\ pc    = [t \in Workers |-> "none"]
    /\ priv  = [t \in Workers |-> [local_start |-> NoId, local_best |-> NoId]]
    /\ role  = <<>>
    /\ alive = <<>>
    /\ gs    = GsInit
    /\ fs    = FsInit
    /\ stop  = FALSE
    /\ cbar  = <<>>
    /\ stack = <<>>
    /\ drv   = <<>>
    /\ sbar  = <<>>
    /\ mpc   = "none"
    /\ hist  = [before |-> NoId, waves |-> <<>>]
    /\ hpc   = "check"

AnnealUnchanged == UNCHANGED <<cfg, role, alive, gs, fs, stop, cbar, stack, drv, sbar, mpc>>

\* if (outer_iter > 0) { stagnation = outer_iter - last_improvement_iter_;
\*                       if (stagnation >= outer_no_improve_limit) break; }
StagnationBreak(m) ==
    /\ m.outer_iter > 0
    /\ m.outer_iter - m.last_improvement_iter >= cfg.outer_no_improve_limit

\* an update that takes the worker's result without comparing the costs
UpdateGlobal_always(m, local_best) ==
    [m EXCEPT !.global_best = local_best, !.improved_this_round = TRUE]

\* the worker's block under the mutex after sa.run()
UpdateGlobal(m, local_best) ==
    IF local_best < m.global_best
    THEN [m EXCEPT !.global_best = local_best, !.improved_this_round = TRUE]
    ELSE m

\* the loop test; the loop is left, or the workers of a wave are started
AStopTest ==
    /\ hpc = "check"
    /\ IF StagnationBreak(mod)
       THEN /\ hpc' = "returned"
            /\ UNCHANGED <<mod, pc, priv, hist>>
       ELSE /\ hpc' = "wave"
            /\ mod' = [mod EXCEPT !.improved_this_round = FALSE]
            /\ pc' = [t \in Workers |-> "spawned"]
            /\ priv' = [t \in Workers |-> [local_start |-> NoId, local_best |-> NoId]]
            /\ hist' = [hist EXCEPT !.before = mod.global_best]
    /\ AnnealUnchanged

\* worker t clones global_best_ under the mutex
AWorkerStart(t) ==
    /\ hpc = "wave" /\ pc[t] = "spawned"
    /\ priv' = [priv EXCEPT ![t].local_start = mod.global_best]
    /\ pc' = [pc EXCEPT ![t] = "started"]
    /\ UNCHANGED <<mod, hist, hpc>>
    /\ AnnealUnchanged

\* sa.run(): the best solution of the run costs no more than its start
AWorkerRun(t) ==
    /\ hpc = "wave" /\ pc[t] = "started"
    /\ \E c \in 0..priv[t].local_start : priv' = [priv EXCEPT ![t].local_best = c]
    /\ pc' = [pc EXCEPT ![t] = "ran"]
    /\ UNCHANGED <<mod, hist, hpc>>
    /\ AnnealUnchanged

\* worker t offers its result under the mutex and ends
AWorkerUpdate(t) ==
    /\ hpc = "wave" /\ pc[t] = "ran"
    /\ mod' = UpdateGlobal(mod, priv[t].local_best)
    /\ pc' = [pc EXCEPT ![t] = "done"]
    /\ UNCHANGED <<priv, hist, hpc>>
    /\ AnnealUnchanged

\* the workers are joined: last_improvement_iter_ and ++outer_iter
AJoin ==
    /\ hpc = "wave"
    /\ \A t \in Workers : pc[t] = "done"
    /\ mod' = [mod EXCEPT !.last_improvement_iter =
                              IF mod.improved_this_round THEN mod.outer_iter ELSE @,
                          !.outer_iter = @ + 1]
    /\ hist' = [hist EXCEPT !.waves = Append(@, mod.global_best < hist.before)]
    /\ hpc' = "check"
    /\ UNCHANGED <<pc, priv>>
    /\ AnnealUnchanged

NextAnneal ==
    \/ AStopTest
    \/ \E t \in Workers : AWorkerStart(t)
    \/ \E t \in Workers : AWorkerRun(t)
    \/ \E t \in Workers : AWorkerUpdate(t)
    \/ AJoin

SpecAnneal == InitAnneal /\ [][NextAnneal]_vars

\* the number of waves without improvement at the end of those joined
RECURSIVE Stagnant(_)
Stagnant(w) ==
    IF w = <<>> \/ w[Len(w)] THEN 0 ELSE 1 + Stagnant(SubSeq(w, 1, Len(w) - 1))

\* C38: run_parallel runs at least one wave and stops exactly when
\* outer_no_improve_limit consecutive outer iterations have completed without
\* improving the global best: when it has returned, that many waves at the
\* end did not improve it (not fewer), and no wave is started after that
\* many (not more).
C38_StopsAtLimit ==
    /\ hpc = "returned" =>
          /\ Len(hist.waves) >= 1
          /\ Stagnant(hist.waves) = cfg.outer_no_improve_limit
    /\ hpc = "wave" => Stagnant(hist.waves) < cfg.outer_no_improve_limit

\* C39: for every interleaving of the workers of a wave the cost of
\* global_best_ never increases; when the workers are all done it is the
\* minimum of its value before the wave and the workers' best costs; and
\* improved_this_round is true exactly when it went down during the wave.
C39_GlobalBestIsMinimum ==
    /\ [][mod'.global_best <= mod.global_best]_vars
    /\ []((hpc = "wave") =>
            /\ mod.improved_this_round <=> (mod.global_best < hist.before)
            /\ mod.global_best <= hist.before
            /\ \A t \in Workers : pc[t] = "done" => mod.global_best <= priv[t].local_best
            /\ \/ mod.global_best = hist.before
               \/ \E t \in Workers : pc[t] = "done" /\ mod.global_best = priv[t].local_best)

\* two workers have both found better solutions than the wave started with,
\* of different costs, and both have offered them
C39_Witness ==
    /\ hpc = "wave"
    /\ cfg.n_threads = 2
    /\ pc[0] = "done" /\ pc[1] = "done"
    /\ priv[0].local_best < hist.before
    /\ priv[1].local_best < priv[0].local_best
    /\ priv[0].local_start = hist.before /\ priv[1].local_start = hist.before
====
